---- MODULE Spec2Model ----
(***************************************************************************)
(* Model of the Polymarket / Hyperliquid arbitrage bot's execution engine  *)
(* (HyperliquidExecutor), its position monitor and the bot's shutdown,     *)
(* together with the detector's validate_opportunity and the two venues as *)
(* the client wrappers see them.                                           *)
(*                                                                         *)
(* Units: hedge prices and notionals are whole USD; prediction prices are  *)
(* cents; funding rates are thousandths (10 = 0.01 = 1%); time is counted  *)
(* in ticks of 24/TicksPerDay hours.                                       *)
(***************************************************************************)
EXTENDS Integers, Sequences, FiniteSets, TLC

VARIABLES
    strategy,            \* HyperliquidExecutor.strategy
    now,                 \* the wall clock (datetime.utcnow()), in ticks
    positions,           \* every Position object created so far; index = position_id
    active_positions,    \* HyperliquidExecutor.active_positions (its keys)
    position_history,    \* HyperliquidExecutor.position_history
    daily_trade_count,   \* HyperliquidExecutor.daily_trade_count
    last_trade_reset,    \* HyperliquidExecutor.last_trade_reset (a date)
    funding_rates,       \* HyperliquidClient.funding_rates (the cache get_funding_rate reads)
    hl_positions,        \* the perpetual venue's net position size per asset
    book,                \* per position id: what its execution left at the venues
    ex,                  \* the execute_opportunity call in progress
    mon,                 \* the monitor_positions task
    shut,                \* ArbitrageBot.shutdown
    ret,                 \* what the last execute_opportunity call returned
    reset_count,         \* how many times daily_trade_count was reset
    val,                 \* the last validate_opportunity call: inputs and result
    calc                 \* the last call of a pure computation: inputs and result

vars == <<strategy, now, positions, active_positions, position_history,
          daily_trade_count, last_trade_reset, funding_rates, hl_positions,
          book, ex, mon, shut, ret, reset_count, val, calc>>

---------------------------------------------------------------------------
(* Bounds of the model *)

MaxPositions == 2        \* Position objects the engine creates, run on its own
BotPositions == 1        \* Position objects the engine creates, run inside the bot
CapPositions == 3        \* Position objects the engine creates, asked past its cap
MaxNow == 2              \* last clock tick
TicksPerDay == 1         \* clock ticks per UTC day
max_concurrent == 2      \* config.MAX_CONCURRENT_POSITIONS as configured for the run
max_daily_trades == 2    \* config.MAX_DAILY_TRADES as configured for the run

(* Program constants *)

MAX_POSITION_SIZE_USD == 5000
DEFAULT_LEVERAGE == 5
MAX_LEVERAGE == 10
FUNDING_RATE_THRESHOLD == 10
DEFAULT_STOP_LOSS_PERCENT == 2

\* Python's None in an Optional[Decimal] / Optional[str] field (every value of
\* such a field is >= 0 in the model)
None == -1
\* Decimal("NaN"): arithmetic on it gives NaN, an ordering comparison with it
\* raises InvalidOperation
NaN == -3

Strategies == {"AGGRESSIVE", "PASSIVE", "ADAPTIVE", "TWAP"}
Assets == {"BTC", "ETH"}
\* market ids the prediction venue knows; opportunity ids are uuid4 strings and
\* never among them
Markets == {"m1", "m2"}
Terminal == {"CLOSED", "CANCELLED", "ERROR"}
Statuses == {"PENDING", "OPEN", "PARTIAL"} \cup Terminal

\* The opportunities handed to execute_opportunity: a large one on BTC, whose
\* hedge notional alone is past the concentration limit, and a small one on
\* ETH that expires during the run.
Opportunities ==
    { [opportunity_id |-> "o1", market_id |-> "m1", asset |-> "BTC",
       polymarket_side |-> "DOWN", hedge_side |-> "LONG",
       polymarket_price |-> 40, polymarket_quantity |-> 5000,
       hedge_price |-> 4000, hedge_quantity |-> 3,
       breakeven_price |-> 4400, expected_profit_percentage |-> 3,
       expires_at |-> 3],
      [opportunity_id |-> "o2", market_id |-> "m2", asset |-> "ETH",
       polymarket_side |-> "UP", hedge_side |-> "SHORT",
       polymarket_price |-> 40, polymarket_quantity |-> 2000,
       hedge_price |-> 4000, hedge_quantity |-> 1,
       breakeven_price |-> 3600, expected_profit_percentage |-> 6,
       expires_at |-> 1] }

\* funding rates the venue reports: none, and one past the pre-check's band (0.02)
FundingValues == {0, 25}
\* ... and, while a position is monitored, one past the monitor's band (0.03)
MonitorFundingValues == FundingValues \cup {35}
MarketPrices == {3900, 4000, 4200}
\* what a venue does with a request: serves it, refuses it, or the call faults
Replies == {"ok", "rejected", "fault"}

Abs(x) == IF x < 0 THEN -x ELSE x

\* datetime.utcnow().date()
DateOf(t) == t \div TicksPerDay

\* (expires_at - datetime.utcnow()).total_seconds() / 3600
HoursBetween(t, expires_at) == ((expires_at - t) * 24) \div TicksPerDay

RECURSIVE SumOver(_, _)
SumOver(S, f) ==
    IF S = {} THEN 0
    ELSE LET x == CHOOSE y \in S : TRUE IN f[x] + SumOver(S \ {x}, f)

Signed(side, q) == IF side \in {"LONG", "UP"} THEN q ELSE -q

---------------------------------------------------------------------------
(* Position(...) as execute_opportunity constructs it *)

NewPosition(o) ==
    [status |-> "PENDING",
     opportunity_id |-> o.opportunity_id,
     asset |-> o.asset,                      \* hedge_symbol = f"{asset}-USD-PERP"
     polymarket_side |-> o.polymarket_side,
     hedge_side |-> o.hedge_side,
     polymarket_order_id |-> None,
     polymarket_entry_price |-> None,
     polymarket_quantity |-> None,
     hedge_order_id |-> None,
     hedge_entry_price |-> None,
     hedge_quantity |-> None,
     stop_loss_price |-> None,
     take_profit_price |-> None,
     unrealized_pnl |-> 0,
     closed_at |-> None,
     expires_at |-> o.expires_at]

\* What an execution has left at the venues: resting entry orders, the net
\* quantity its own orders (entry and unwind) have filled, and what its
\* rollback did.
NewBook ==
    [pm_live |-> 0, hl_live |-> 0, pm_net |-> 0, hl_net |-> 0,
     rollbacks |-> 0, pm_unwinds |-> 0, hl_unwinds |-> 0, unwind_failed |-> FALSE,
     closes |-> 0]

Idle == [pc |-> "idle"]

\* position p of the sequence ps replaced by q
SetAt(ps, pid, q) == [ps EXCEPT ![pid] = q]

---------------------------------------------------------------------------
(* The client wrappers *)

\* Every method of PolymarketClient and HyperliquidClient runs inside
\* try/except Exception and turns a fault into None, False, {} or []:
\* no venue fault reaches the executor as an exception.
ClientRaises(reply) == FALSE

\* PolymarketClient.place_order: an order id, or None when the market is not
\* one the venue knows (no order book) or the venue refuses or faults.
PolymarketPlaceOrder(market_id, reply) ==
    market_id \in Markets /\ reply = "ok" /\ ~ClientRaises(reply)

\* HyperliquidClient.place_order answers with the oid of the resting order:
\*   "resting"  the order is accepted and rests           -> oid
\*   "filled"   the order is accepted and fills at once,
\*              the response holds no "resting" entry     -> None
\*   "rejected", "fault"                                  -> None
HlPlaceReplies == {"resting", "filled", "rejected", "fault"}
HyperliquidPlaceOrder(reply) == reply = "resting"

\* HyperliquidClient.close_position(asset): a reduce-only market order for the
\* whole net position of the asset, when there is one. The new net size.
HyperliquidClosePosition(size, reply) ==
    IF size # 0 /\ reply = "ok" THEN 0 ELSE size

\* HyperliquidClient.get_positions, the entry of one asset: the size, or 0 when
\* the venue shows no position on it or the call faults (-> []).
HyperliquidGetPosition(size, reply) == IF reply = "ok" THEN size ELSE 0

---------------------------------------------------------------------------
(* HyperliquidExecutor._check_risk_limits *)

\* the reset test with the comparison widened to the same day
NeedsResetSameDay(today, last) == today >= last

NeedsReset(today, last) == today > last

\* the limits with the daily cap alone
RiskLimitsAllowDailyOnly(n_active, count) == ~(count >= max_daily_trades)

RiskLimitsAllow(n_active, count) ==
    /\ ~(n_active >= max_concurrent)
    /\ ~(count >= max_daily_trades)

(* HyperliquidExecutor._pre_execution_checks *)

\* the funding test with the monitor's multiple of the threshold
ExtremeFundingHard(rate) == Abs(rate) > FUNDING_RATE_THRESHOLD * 3

ExtremeFunding(rate) == Abs(rate) > FUNDING_RATE_THRESHOLD * 2

\* the active positions whose hedge_symbol starts with the asset
SameAsset(asset) == {pid \in active_positions : positions[pid].asset = asset}

\* Decimal * None raises TypeError inside the sum
ExposureRaises(asset) ==
    \E pid \in SameAsset(asset) :
        \/ positions[pid].hedge_quantity = None
        \/ positions[pid].hedge_entry_price = None

ExistingExposure(asset) ==
    SumOver(SameAsset(asset),
            [pid \in SameAsset(asset) |->
                positions[pid].hedge_quantity * positions[pid].hedge_entry_price])

ConcentrationReached(asset) ==
    ExistingExposure(asset) > MAX_POSITION_SIZE_USD * 2

\* "pass", "reject" (returns False) or "raise" (the TypeError leaves
\* execute_opportunity: the checks run outside its try block)
PreExecutionChecks(o, count) ==
    IF ~RiskLimitsAllow(Cardinality(active_positions), count) THEN "reject"
    ELSE IF ExtremeFunding(funding_rates[o.asset]) THEN "reject"
    ELSE IF ExposureRaises(o.asset) THEN "raise"
    ELSE IF ConcentrationReached(o.asset) THEN "reject"
    ELSE "pass"

(* HyperliquidExecutor._create_execution_plan *)

Min(a, b) == IF a < b THEN a ELSE b
Max(a, b) == IF a > b THEN a ELSE b

BasePlan ==
    [use_market_orders |-> FALSE, polymarket_chunks |-> 1, hyperliquid_chunks |-> 1,
     leverage |-> DEFAULT_LEVERAGE, post_only |-> FALSE, time_limit |-> 60]

\* the plan with the expiry test alone in its first branch
CreateExecutionPlanByExpiry(o, strat, hours_to_expiry) ==
    IF hours_to_expiry < 2
    THEN [BasePlan EXCEPT !.use_market_orders = TRUE, !.time_limit = 30]
    ELSE IF strat = "PASSIVE"
    THEN [BasePlan EXCEPT !.post_only = TRUE, !.time_limit = 120]
    ELSE BasePlan

CreateExecutionPlan(o, strat, hours_to_expiry) ==
    IF strat = "AGGRESSIVE" \/ hours_to_expiry < 2
    THEN [BasePlan EXCEPT !.use_market_orders = TRUE, !.time_limit = 30]
    ELSE IF strat = "PASSIVE"
    THEN [BasePlan EXCEPT !.post_only = TRUE, !.time_limit = 120]
    ELSE IF strat = "TWAP"
    THEN [BasePlan EXCEPT
            !.polymarket_chunks =
                IF o.polymarket_quantity * o.polymarket_price > 1000 * 100 THEN 3 ELSE 1,
            !.hyperliquid_chunks =
                IF o.hedge_quantity * o.hedge_price > 5000 THEN 5 ELSE 1]
    ELSE IF hours_to_expiry < 4
    THEN [BasePlan EXCEPT !.use_market_orders = TRUE]
    ELSE IF o.expected_profit_percentage > 5
    THEN [BasePlan EXCEPT !.use_market_orders = TRUE,
                          !.leverage = Min(MAX_LEVERAGE, DEFAULT_LEVERAGE + 2)]
    ELSE BasePlan

(* HyperliquidExecutor._set_risk_parameters *)

\* entry * (1 -/+ stop_loss_decimal / leverage), stop_loss_decimal = percent / 100
StopLossPrice(entry, side) ==
    IF side = "LONG"
    THEN (entry * (100 * DEFAULT_LEVERAGE - DEFAULT_STOP_LOSS_PERCENT))
            \div (100 * DEFAULT_LEVERAGE)
    ELSE (entry * (100 * DEFAULT_LEVERAGE + DEFAULT_STOP_LOSS_PERCENT))
            \div (100 * DEFAULT_LEVERAGE)

\* breakeven_price * Decimal("0.95")
TakeProfitPrice(breakeven) == (breakeven * 95) \div 100

\* the TypeError of None * Decimal is caught inside: nothing is set
SetRiskParameters(p, o) ==
    IF p.hedge_entry_price = None THEN p
    ELSE [p EXCEPT !.stop_loss_price = StopLossPrice(p.hedge_entry_price, p.hedge_side),
                   !.take_profit_price = TakeProfitPrice(o.breakeven_price)]

(* HyperliquidExecutor._rollback_position *)

RollbackUnwindsPolymarket(p) ==
    p.polymarket_quantity # None /\ p.polymarket_quantity > 0

RollbackUnwindsHedge(p) ==
    p.hedge_quantity # None /\ p.hedge_quantity > 0

RollbackStatus(raised) == IF raised THEN "ERROR" ELSE "CANCELLED"

\* The position, its book and the venue's net sizes after one call of
\* _rollback_position; r_pm and r_hl are the venues' answers to the two unwind
\* requests.
Rollback(p, bk, sizes, r_pm, r_hl) ==
    LET pm_try == RollbackUnwindsPolymarket(p)
        \* place_order(market_id=position.opportunity_id, side=opposite, MARKET, quantity)
        pm_ok == pm_try /\ PolymarketPlaceOrder(p.opportunity_id, r_pm)
        hl_try == RollbackUnwindsHedge(p)
        size == sizes[p.asset]
        new_size == IF hl_try THEN HyperliquidClosePosition(size, r_hl) ELSE size
        hl_sent == hl_try /\ size # 0
        hl_ok == hl_sent /\ new_size = 0
        raised == (pm_try /\ ClientRaises(r_pm)) \/ (hl_try /\ ClientRaises(r_hl))
    IN [position |-> [p EXCEPT !.status = RollbackStatus(raised)],
        book |-> [bk EXCEPT
            !.rollbacks = @ + 1,
            !.pm_unwinds = IF pm_try THEN @ + 1 ELSE @,
            !.pm_net = IF pm_ok
                       THEN @ - Signed(p.polymarket_side, p.polymarket_quantity)
                       ELSE @,
            !.hl_unwinds = IF hl_sent THEN @ + 1 ELSE @,
            !.hl_net = IF hl_ok THEN @ - size ELSE @,
            !.unwind_failed = @ \/ (pm_try /\ ~pm_ok) \/ (hl_sent /\ ~hl_ok)],
        sizes |-> [sizes EXCEPT ![p.asset] = new_size]]

---------------------------------------------------------------------------
(* HyperliquidExecutor.__init__, and the venues and tasks at start *)

Init ==
    /\ strategy \in Strategies
    /\ now = 0
    /\ positions = << >>
    /\ active_positions = {}
    /\ position_history = << >>
    /\ daily_trade_count = 0
    /\ last_trade_reset = DateOf(0)
    /\ funding_rates = [a \in Assets |-> 0]
    /\ hl_positions = [a \in Assets |-> 0]
    /\ book = << >>
    /\ ex = Idle
    /\ mon = [pc |-> "sleep"]
    /\ shut = [pc |-> "running"]
    /\ ret = [value |-> "-", why |-> "-", pid |-> 0]
    /\ reset_count = 0
    /\ val = [called |-> FALSE]
    /\ calc = [fn |-> "-"]

\* what execute_opportunity hands to its caller
ReturnedUncaught(value, why, pid) ==
    [value |-> IF why = "raised_after_open" THEN "Raised" ELSE value,
     why |-> why, pid |-> pid]
Returned(value, why, pid) == [value |-> value, why |-> why, pid |-> pid]

\* the clock advances
Tick ==
    /\ now < MaxNow
    /\ now' = now + 1
    /\ UNCHANGED <<calc, val, strategy, positions, active_positions, position_history,
                   daily_trade_count, last_trade_reset, funding_rates,
                   hl_positions, book, ex, mon, shut, ret, reset_count>>

---------------------------------------------------------------------------
(* HyperliquidExecutor.execute_opportunity *)

\* The two leg tasks of _execute_parallel as asyncio.create_task leaves them,
\* or the counters of the time-sliced loop of _execute_twap
Started(pid, o, plan) ==
    IF strategy = "TWAP"
    THEN [pc |-> "twap", pid |-> pid, opp |-> o, plan |-> plan,
          wave |-> 0, pm_ok |-> 0, hl_ok |-> 0]
    ELSE [pc |-> "legs", pid |-> pid, opp |-> o, plan |-> plan,
          pm |-> "start", hl |-> "start",
          pm_success |-> FALSE, hl_success |-> FALSE]

\* The call up to the start of the legs: _pre_execution_checks (with the daily
\* reset of _check_risk_limits), then the Position object, the plan and the
\* set_leverage request, whose answer is not looked at and which touches
\* nothing the other tasks read.
ExecBegin(o, max) ==
    /\ ex.pc = "idle"
    /\ shut.pc = "running"
    /\ LET today == DateOf(now)
           reset == NeedsReset(today, last_trade_reset)
           count == IF reset THEN 0 ELSE daily_trade_count
           checks == PreExecutionChecks(o, count)
           pid == Len(positions) + 1
       IN /\ daily_trade_count' = count
          /\ last_trade_reset' = IF reset THEN today ELSE last_trade_reset
          /\ reset_count' = IF reset THEN reset_count + 1 ELSE reset_count
          /\ IF checks = "pass"
             THEN /\ Len(positions) < max
                  /\ positions' = Append(positions, NewPosition(o))
                  /\ book' = Append(book, NewBook)
                  /\ ex' = Started(pid, o,
                                   CreateExecutionPlan(o, strategy,
                                        HoursBetween(now, o.expires_at)))
                  /\ ret' = Returned("-", "-", 0)
             ELSE /\ ret' = Returned(IF checks = "raise" THEN "Raised" ELSE "None",
                                     "precheck", 0)
                  /\ UNCHANGED <<positions, book, ex>>
    /\ UNCHANGED <<calc, val, strategy, now, active_positions, position_history,
                   funding_rates, hl_positions, mon, shut>>

(* HyperliquidExecutor._execute_polymarket_leg *)

PmPlace(reply) ==
    /\ shut.pc # "exited"
    /\ ex.pc = "legs" /\ ex.pm = "start"
    /\ IF PolymarketPlaceOrder(ex.opp.market_id, reply)
       THEN /\ positions' = [positions EXCEPT ![ex.pid].polymarket_order_id = ex.pid]
            /\ book' = [book EXCEPT ![ex.pid].pm_live = 1]
            /\ ex' = [ex EXCEPT !.pm = "wait"]
       ELSE /\ ex' = [ex EXCEPT !.pm = "done", !.pm_success = FALSE]
            /\ UNCHANGED <<positions, book>>
    /\ UNCHANGED <<calc, val, strategy, now, active_positions, position_history,
                   daily_trade_count, last_trade_reset, funding_rates,
                   hl_positions, mon, shut, ret, reset_count>>

\* the quantities a resting order may have filled when it is polled
Fills(q) == {q, q \div 2}

\* _wait_for_fill sees filled > 0; get_order_status is then asked for the fill
\* (a faulting call answers {}: price 0, filled 0)
PmFilled(status_reply) ==
    /\ shut.pc # "exited"
    /\ ex.pc = "legs" /\ ex.pm = "wait"
    /\ \E q \in Fills(ex.opp.polymarket_quantity) :
       /\ positions' = [positions EXCEPT
            ![ex.pid].polymarket_entry_price =
                IF status_reply = "ok" THEN ex.opp.polymarket_price ELSE 0,
            ![ex.pid].polymarket_quantity = IF status_reply = "ok" THEN q ELSE 0]
       /\ book' = [book EXCEPT
            ![ex.pid].pm_live = IF q = ex.opp.polymarket_quantity THEN 0 ELSE 1,
            ![ex.pid].pm_net = @ + Signed(ex.opp.polymarket_side, q)]
    /\ ex' = [ex EXCEPT !.pm = "done", !.pm_success = TRUE]
    /\ UNCHANGED <<calc, val, strategy, now, active_positions, position_history,
                   daily_trade_count, last_trade_reset, funding_rates,
                   hl_positions, mon, shut, ret, reset_count>>

\* the wait ends unfilled after time_limit // 2: cancel_order, then False
PmTimeout(cancel_reply) ==
    /\ shut.pc # "exited"
    /\ ex.pc = "legs" /\ ex.pm = "wait"
    /\ book' = [book EXCEPT ![ex.pid].pm_live = IF cancel_reply = "ok" THEN 0 ELSE @]
    /\ ex' = [ex EXCEPT !.pm = "done", !.pm_success = FALSE]
    /\ UNCHANGED <<calc, val, strategy, now, positions, active_positions, position_history,
                   daily_trade_count, last_trade_reset, funding_rates,
                   hl_positions, mon, shut, ret, reset_count>>

(* HyperliquidExecutor._execute_hyperliquid_leg *)

\* place_order; a MARKET order asks get_market_data for its price first, which
\* refreshes the cached funding rate of the asset
HlPlace(reply, rate) ==
    /\ shut.pc # "exited"
    /\ ex.pc = "legs" /\ ex.hl = "start"
    /\ funding_rates' = IF ex.plan.use_market_orders /\ reply # "fault"
                        THEN [funding_rates EXCEPT ![ex.opp.asset] = rate]
                        ELSE funding_rates
    /\ ex.plan.use_market_orders \/ rate = 0
    /\ LET a == ex.opp.asset
           q == Signed(ex.opp.hedge_side, ex.opp.hedge_quantity)
       IN IF HyperliquidPlaceOrder(reply)
          THEN /\ positions' = [positions EXCEPT ![ex.pid].hedge_order_id = ex.pid]
               /\ book' = [book EXCEPT ![ex.pid].hl_live = 1]
               /\ ex' = [ex EXCEPT !.hl = "check"]
               /\ UNCHANGED hl_positions
          ELSE /\ ex' = [ex EXCEPT !.hl = "done", !.hl_success = FALSE]
               /\ hl_positions' = IF reply = "filled"
                                  THEN [hl_positions EXCEPT ![a] = @ + q]
                                  ELSE hl_positions
               /\ book' = IF reply = "filled"
                          THEN [book EXCEPT ![ex.pid].hl_net = @ + q]
                          ELSE book
               /\ UNCHANGED positions
    /\ UNCHANGED <<calc, val, strategy, now, active_positions, position_history,
                   daily_trade_count, last_trade_reset,
                   mon, shut, ret, reset_count>>

\* after the 0.5 s sleep: get_positions, and the first entry of the asset
\* decides; the resting order has filled by then or has not
HlCheck(filled, reply) ==
    /\ shut.pc # "exited"
    /\ ex.pc = "legs" /\ ex.hl = "check"
    /\ LET a == ex.opp.asset
           q == Signed(ex.opp.hedge_side, ex.opp.hedge_quantity)
           size == IF filled THEN hl_positions[a] + q ELSE hl_positions[a]
           seen == HyperliquidGetPosition(size, reply)
       IN /\ hl_positions' = [hl_positions EXCEPT ![a] = size]
          /\ book' = IF filled
                     THEN [book EXCEPT ![ex.pid].hl_live = 0, ![ex.pid].hl_net = @ + q]
                     ELSE book
          /\ IF seen # 0
             THEN /\ positions' = [positions EXCEPT
                        ![ex.pid].hedge_entry_price = ex.opp.hedge_price,
                        ![ex.pid].hedge_quantity = Abs(seen)]
                  /\ ex' = [ex EXCEPT !.hl = "done", !.hl_success = TRUE]
             ELSE /\ ex' = [ex EXCEPT !.hl = "done", !.hl_success = FALSE]
                  /\ UNCHANGED positions
    /\ UNCHANGED <<calc, val, strategy, now, active_positions, position_history,
                   daily_trade_count, last_trade_reset, funding_rates,
                   mon, shut, ret, reset_count>>

(* HyperliquidExecutor._execute_twap *)

\* One wave of the loop: a chunk of each leg that still has chunks to place.
\* A chunk counts as filled when place_order returned an order id. After the
\* last wave the position's quantities are the sums of the chunks counted.
ChunkQuantity(n, chunks, quantity) == (n * quantity) \div chunks

\* fill rate > 0.8, the rate being filled / quantity
SufficientFillRate(n, chunks) == 5 * n > 4 * chunks

TwapWave(pm_reply, hl_reply) ==
    /\ shut.pc # "exited"
    /\ ex.pc = "twap"
    /\ LET plan == ex.plan
           max_chunks == Max(plan.polymarket_chunks, plan.hyperliquid_chunks)
           pm_due == ex.wave < plan.polymarket_chunks
           hl_due == ex.wave < plan.hyperliquid_chunks
           pm_got == pm_due /\ PolymarketPlaceOrder(ex.opp.market_id, pm_reply)
           hl_got == hl_due /\ HyperliquidPlaceOrder(hl_reply)
           pm_n == ex.pm_ok + (IF pm_got THEN 1 ELSE 0)
           hl_n == ex.hl_ok + (IF hl_got THEN 1 ELSE 0)
           last == ex.wave + 1 = max_chunks
           \* a chunk that fills at once leaves no resting order: place_order
           \* returns None for it and the loop does not count it
           hl_fill == hl_due /\ hl_reply = "filled"
           hl_chunk == Signed(ex.opp.hedge_side,
                           ChunkQuantity(ex.wave + 1, plan.hyperliquid_chunks,
                                         ex.opp.hedge_quantity)
                           - ChunkQuantity(ex.wave, plan.hyperliquid_chunks,
                                           ex.opp.hedge_quantity))
       IN /\ ex.wave < max_chunks
          /\ (pm_due \/ pm_reply = "rejected")
          /\ (hl_due \/ hl_reply = "rejected")
          /\ book' = [book EXCEPT
                ![ex.pid].pm_live = IF pm_got THEN @ + 1 ELSE @,
                ![ex.pid].hl_live = IF hl_got THEN @ + 1 ELSE @,
                ![ex.pid].hl_net = IF hl_fill THEN @ + hl_chunk ELSE @]
          /\ hl_positions' = IF hl_fill
                             THEN [hl_positions EXCEPT ![ex.opp.asset] = @ + hl_chunk]
                             ELSE hl_positions
          /\ IF last
             THEN /\ positions' = [positions EXCEPT
                        ![ex.pid].polymarket_quantity =
                            ChunkQuantity(pm_n, plan.polymarket_chunks,
                                          ex.opp.polymarket_quantity),
                        ![ex.pid].hedge_quantity =
                            ChunkQuantity(hl_n, plan.hyperliquid_chunks,
                                          ex.opp.hedge_quantity)]
                  /\ ex' = [ex EXCEPT !.pc = "twapdone", !.wave = @ + 1,
                                      !.pm_ok = pm_n, !.hl_ok = hl_n]
             ELSE /\ ex' = [ex EXCEPT !.wave = @ + 1, !.pm_ok = pm_n, !.hl_ok = hl_n]
                  /\ UNCHANGED positions
    /\ UNCHANGED <<calc, val, strategy, now, active_positions, position_history,
                   daily_trade_count, last_trade_reset, funding_rates,
                   mon, shut, ret, reset_count>>

(* execute_opportunity once _execute_parallel / _execute_twap has returned *)

LegsDone == ex.pc = "legs" /\ ex.pm = "done" /\ ex.hl = "done"

\* the success test with "or" between the legs
ExecutionSucceededEither ==
    \/ LegsDone /\ (ex.pm_success \/ ex.hl_success)
    \/ /\ ex.pc = "twapdone"
       /\ \/ SufficientFillRate(ex.pm_ok, ex.plan.polymarket_chunks)
          \/ SufficientFillRate(ex.hl_ok, ex.plan.hyperliquid_chunks)

\* pm_success and hl_success / pm_fill_rate > 0.8 and hl_fill_rate > 0.8
ExecutionSucceeded ==
    \/ LegsDone /\ ex.pm_success /\ ex.hl_success
    \/ /\ ex.pc = "twapdone"
       /\ SufficientFillRate(ex.pm_ok, ex.plan.polymarket_chunks)
       /\ SufficientFillRate(ex.hl_ok, ex.plan.hyperliquid_chunks)

ExecutionFailed ==
    /\ LegsDone \/ ex.pc = "twapdone"
    /\ ~ExecutionSucceeded

\* the "Position opened" log line formats four Optional[Decimal] fields with
\* :.2f / :.4f; None raises TypeError
OpenLogRaises(p) ==
    \/ p.polymarket_quantity = None
    \/ p.polymarket_entry_price = None
    \/ p.hedge_quantity = None
    \/ p.hedge_entry_price = None

\* the opening without the status assignment
OpenedPending(p, o) == SetRiskParameters(p, o)

\* lines 117-125: risk parameters, status OPEN
Opened(p, o) == [SetRiskParameters(p, o) EXCEPT !.status = "OPEN"]

ExecOpen ==
    /\ shut.pc # "exited"
    /\ ExecutionSucceeded
    /\ LET p == Opened(positions[ex.pid], ex.opp)
       IN /\ ~OpenLogRaises(p)
          /\ positions' = SetAt(positions, ex.pid, p)
          /\ active_positions' = active_positions \cup {ex.pid}
          /\ daily_trade_count' = daily_trade_count + 1
          /\ ret' = Returned("Position", "opened", ex.pid)
          /\ ex' = Idle
    /\ UNCHANGED <<calc, val, strategy, now, position_history, last_trade_reset,
                   funding_rates, hl_positions, book, mon, shut, reset_count>>

\* the position is OPEN, registered and counted when the log line raises: the
\* except branch starts _rollback_position, which awaits its unwind requests
\* with the position still OPEN and registered
ExecOpenRaises ==
    /\ shut.pc # "exited"
    /\ ExecutionSucceeded
    /\ LET p == Opened(positions[ex.pid], ex.opp)
       IN /\ OpenLogRaises(p)
          /\ positions' = SetAt(positions, ex.pid, p)
          /\ active_positions' = active_positions \cup {ex.pid}
          /\ daily_trade_count' = daily_trade_count + 1
          /\ ex' = [pc |-> "unwinding", pid |-> ex.pid, opp |-> ex.opp,
                    plan |-> ex.plan, legs |-> ex]
    /\ UNCHANGED <<calc, val, strategy, now, position_history, last_trade_reset,
                   funding_rates, hl_positions, book, mon, shut, ret,
                   reset_count>>

RolledBack(why, r_pm, r_hl) ==
    LET rb == Rollback(positions[ex.pid], book[ex.pid], hl_positions, r_pm, r_hl)
    IN /\ positions' = SetAt(positions, ex.pid, rb.position)
       /\ book' = SetAt(book, ex.pid, rb.book)
       /\ hl_positions' = rb.sizes
       /\ ret' = Returned("None", why, ex.pid)
       /\ ex' = Idle
       /\ UNCHANGED <<calc, val, strategy, now, active_positions, position_history,
                      daily_trade_count, last_trade_reset, funding_rates,
                      mon, shut, reset_count>>

\* not success: _rollback_position, return None
ExecFail(r_pm, r_hl) ==
    /\ shut.pc # "exited"
    /\ ExecutionFailed
    /\ RolledBack("leg_failed", r_pm, r_hl)

\* the unwind requests of that rollback are answered: status, return None
ExecUnwound(r_pm, r_hl) ==
    /\ shut.pc # "exited"
    /\ ex.pc = "unwinding"
    /\ RolledBack("raised_after_open", r_pm, r_hl)

\* asyncio.wait returns at time_limit with a leg task still pending: the task
\* is cancelled, task.done() is False for it, so the outcome is not success.
\* With a LIMIT order the prediction leg places its order before it first
\* suspends, so its task is past the placement by then; with a MARKET order it
\* waits for the order book first.
ExecDeadline(r_pm, r_hl) ==
    /\ shut.pc # "exited"
    /\ ex.pc = "legs"
    /\ ex.pm # "start" \/ ex.plan.use_market_orders
    /\ ex.pm # "done" \/ ex.hl # "done"
    /\ RolledBack("deadline", r_pm, r_hl)

---------------------------------------------------------------------------
(* HyperliquidExecutor.close_position *)

\* "raise": position.hedge_quantity > 0 raises on None (-> status ERROR);
\* "venue": hyperliquid.close_position(asset) is awaited; "skip": no venue call
CloseKind(p) ==
    IF p.hedge_quantity = None THEN "raise"
    ELSE IF p.hedge_quantity > 0 THEN "venue" ELSE "skip"

\* status after lines 609-614: CLOSED, unless del active_positions[id] raises
\* KeyError, which the except branch turns into ERROR
CloseStatusError(registered) == "ERROR"
CloseStatus(registered) == IF registered THEN "CLOSED" ELSE "ERROR"

\* close_position from the answer of the venue call (or from its start, when
\* no venue call is made) to its end: the executor's and the venue's state after
Closed(pid, kind, reply) ==
    LET p == positions[pid]
        size == hl_positions[p.asset]
    IN IF kind = "raise"
       THEN [positions |-> [positions EXCEPT ![pid].status = "ERROR"],
             sizes |-> hl_positions, book |-> book,
             history |-> position_history, active |-> active_positions]
       ELSE [positions |-> [positions EXCEPT
                    ![pid].status = CloseStatus(pid \in active_positions),
                    ![pid].closed_at = now],
             sizes |-> IF kind = "venue"
                       THEN [hl_positions EXCEPT
                                ![p.asset] = HyperliquidClosePosition(size, reply)]
                       ELSE hl_positions,
             book |-> [book EXCEPT
                    ![pid].closes = IF kind = "venue" /\ size # 0 THEN @ + 1 ELSE @],
             history |-> Append(position_history, pid),
             active |-> active_positions \ {pid}]

---------------------------------------------------------------------------
(* HyperliquidExecutor.monitor_positions *)

RECURSIVE Sorted(_)
Sorted(S) ==
    IF S = {} THEN << >>
    ELSE LET m == CHOOSE x \in S : \A y \in S : x <= y
         IN <<m>> \o Sorted(S \ {m})

Sleeping == [pc |-> "sleep"]

\* datetime.utcnow() >= position.expires_at
ExpiredLate(p, t) == t > p.expires_at
Expired(p, t) == t >= p.expires_at

\* The loop over the snapshot from one position on, up to its next venue
\* call: positions that are not OPEN are passed over; an expired one is closed;
\* for any other one the quote is asked for. After the last position the task
\* sleeps.
RECURSIVE MonScan(_, _)
MonScan(queue, ps) ==
    IF queue = << >> THEN Sleeping
    ELSE IF ps[Head(queue)].status # "OPEN" THEN MonScan(Tail(queue), ps)
    ELSE IF Expired(ps[Head(queue)], now)
    THEN [pc |-> "close", queue |-> queue, reason |-> "expired"]
    ELSE [pc |-> "quote", queue |-> queue]

\* a pass starts, after the sleep of the pass before or after the backoff
\* sleep of the except branch: list(self.active_positions.items())
MonWake ==
    /\ shut.pc # "exited"
    /\ \/ mon.pc = "sleep" /\ active_positions # {}
       \/ mon.pc = "backoff"
    /\ mon' = MonScan(Sorted(active_positions), positions)
    /\ UNCHANGED <<calc, val, strategy, now, positions, active_positions, position_history,
                   daily_trade_count, last_trade_reset, funding_rates,
                   hl_positions, book, ex, shut, ret, reset_count>>

StopLossHit(p, price) ==
    IF p.hedge_side = "LONG" THEN price <= p.stop_loss_price
    ELSE price >= p.stop_loss_price

TakeProfitHit(p, price) ==
    IF p.hedge_side = "LONG" THEN price >= p.take_profit_price
    ELSE price <= p.take_profit_price

HedgePnl(p, price) ==
    IF p.hedge_side = "LONG"
    THEN p.hedge_quantity * (price - p.hedge_entry_price)
    ELSE p.hedge_quantity * (p.hedge_entry_price - price)

HighFunding(rate) == Abs(rate) > FUNDING_RATE_THRESHOLD * 3

\* lines 566-580 on a position registered without its prices: the P&L
\* arithmetic on hedge_entry_price, or the comparison with a level, meets None
\* and raises TypeError; with a quote whose price is NaN the comparison with
\* the stop-loss level raises InvalidOperation
IterationRaises(p, price) ==
    \/ p.hedge_quantity = None
    \/ p.hedge_entry_price = None
    \/ p.stop_loss_price = None
    \/ price = NaN
    \/ ~StopLossHit(p, price) /\ p.take_profit_price = None

\* except Exception: the error is logged, the task sleeps 10 s and the while
\* loop goes round
AfterErrorStops == [pc |-> "stopped"]
AfterError == [pc |-> "backoff"]

\* lines 584-588 and what follows them: the funding check of the position,
\* then the rest of the snapshot
AfterLevels(queue, ps, rates) ==
    IF HighFunding(rates[ps[Head(queue)].asset])
    THEN [pc |-> "close", queue |-> queue, reason |-> "funding"]
    ELSE MonScan(Tail(queue), ps)

\* get_market_data answers None: the position is skipped
MonNoQuote ==
    /\ shut.pc # "exited"
    /\ mon.pc = "quote"
    /\ mon' = MonScan(Tail(mon.queue), positions)
    /\ UNCHANGED <<calc, val, strategy, now, positions, active_positions, position_history,
                   daily_trade_count, last_trade_reset, funding_rates,
                   hl_positions, book, ex, shut, ret, reset_count>>

\* get_market_data answers with a quote (mid price); the call also refreshes
\* the cached funding rate of the asset
MonQuote(price, rate) ==
    /\ shut.pc # "exited"
    /\ mon.pc = "quote"
    /\ LET pid == Head(mon.queue)
           p == positions[pid]
       IN /\ ~IterationRaises(p, price)
          /\ funding_rates' = [funding_rates EXCEPT ![p.asset] = rate]
          /\ IF StopLossHit(p, price) \/ TakeProfitHit(p, price)
             THEN /\ mon' = [pc |-> "close", queue |-> mon.queue,
                             reason |-> IF StopLossHit(p, price)
                                        THEN "stop_loss" ELSE "take_profit",
                             pnl |-> HedgePnl(p, price)]
                  /\ UNCHANGED positions
             ELSE /\ positions' = [positions EXCEPT
                        ![pid].unrealized_pnl = HedgePnl(p, price)]
                  /\ mon' = AfterLevels(mon.queue, positions', funding_rates')
    /\ UNCHANGED <<calc, val, strategy, now, active_positions, position_history,
                   daily_trade_count, last_trade_reset, hl_positions, book,
                   ex, shut, ret, reset_count>>

\* get_market_data answers with a quote and the iteration raises: the rest of
\* the pass is given up
MonQuoteRaises(price, rate) ==
    /\ shut.pc # "exited"
    /\ mon.pc = "quote"
    /\ LET p == positions[Head(mon.queue)]
       IN /\ IterationRaises(p, price)
          /\ funding_rates' = [funding_rates EXCEPT ![p.asset] = rate]
          /\ mon' = AfterError
    /\ UNCHANGED <<calc, val, strategy, now, positions, active_positions,
                   position_history, daily_trade_count, last_trade_reset,
                   hl_positions, book, ex, shut, ret, reset_count>>

\* the venue call of a close_position made by the monitor answers, and
\* close_position runs to its end; after a stop-loss / take-profit close the
\* iteration goes on with lines 582-588 for the same position
MonCloseDone(reply) ==
    /\ shut.pc # "exited"
    /\ mon.pc = "close"
    /\ LET pid == Head(mon.queue)
           c == Closed(pid, CloseKind(positions[pid]), reply)
       IN /\ hl_positions' = c.sizes
          /\ book' = c.book
          /\ position_history' = c.history
          /\ active_positions' = c.active
          /\ IF mon.reason \in {"stop_loss", "take_profit"}
             THEN /\ positions' = [c.positions EXCEPT ![pid].unrealized_pnl = mon.pnl]
                  /\ mon' = AfterLevels(mon.queue, positions', funding_rates)
             ELSE /\ positions' = c.positions
                  /\ mon' = MonScan(Tail(mon.queue), positions')
    /\ UNCHANGED <<calc, val, strategy, now, daily_trade_count, last_trade_reset,
                   funding_rates, ex, shut, ret, reset_count>>

---------------------------------------------------------------------------
(* ArbitrageBot.shutdown, with live trading enabled *)

CloseApplied(c) ==
    /\ positions' = c.positions
    /\ hl_positions' = c.sizes
    /\ book' = c.book
    /\ position_history' = c.history
    /\ active_positions' = c.active

\* is_running = False; list(self.executor.active_positions.values())
ShutdownBegin ==
    /\ shut.pc = "running"
    /\ shut' = [pc |-> "closing", queue |-> Sorted(active_positions)]
    /\ UNCHANGED <<calc, val, strategy, now, positions, active_positions, position_history,
                   daily_trade_count, last_trade_reset, funding_rates,
                   hl_positions, book, ex, mon, ret, reset_count>>

\* close_position(position, reason="Shutdown") up to its venue call, or to its
\* end when it makes none
ShutdownClose ==
    /\ shut.pc = "closing"
    /\ shut.queue # << >>
    /\ LET pid == Head(shut.queue)
           kind == CloseKind(positions[pid])
       IN IF kind = "venue"
          THEN /\ shut' = [pc |-> "awaiting", queue |-> shut.queue]
               /\ UNCHANGED <<positions, active_positions, position_history,
                              hl_positions, book>>
          ELSE /\ CloseApplied(Closed(pid, kind, "ok"))
               /\ shut' = [pc |-> "closing", queue |-> Tail(shut.queue)]
    /\ UNCHANGED <<calc, val, strategy, now, daily_trade_count, last_trade_reset,
                   funding_rates, ex, mon, ret, reset_count>>

ShutdownCloseDone(reply) ==
    /\ shut.pc = "awaiting"
    /\ CloseApplied(Closed(Head(shut.queue), "venue", reply))
    /\ shut' = [pc |-> "closing", queue |-> Tail(shut.queue)]
    /\ UNCHANGED <<calc, val, strategy, now, daily_trade_count, last_trade_reset,
                   funding_rates, ex, mon, ret, reset_count>>

\* sys.exit(0): every task ends
ShutdownExit ==
    /\ shut.pc = "closing"
    /\ shut.queue = << >>
    /\ shut' = [pc |-> "exited"]
    /\ UNCHANGED <<calc, val, strategy, now, positions, active_positions, position_history,
                   daily_trade_count, last_trade_reset, funding_rates,
                   hl_positions, book, ex, mon, ret, reset_count>>

---------------------------------------------------------------------------

\* the steps of a call of execute_opportunity after its start
ExecSteps ==
    \/ \E r \in Replies : PmPlace(r)
    \/ \E r \in {"ok", "fault"} : PmFilled(r)
    \/ \E r \in Replies : PmTimeout(r)
    \/ \E r \in HlPlaceReplies, rate \in FundingValues : HlPlace(r, rate)
    \/ \E f \in BOOLEAN, r \in Replies : HlCheck(f, r)
    \/ \E r1 \in Replies, r2 \in HlPlaceReplies : TwapWave(r1, r2)
    \/ ExecOpen
    \/ ExecOpenRaises
    \/ \E r1, r2 \in Replies : ExecUnwound(r1, r2)
    \/ \E r1, r2 \in Replies : ExecFail(r1, r2)
    \/ \E r1, r2 \in Replies : ExecDeadline(r1, r2)

MonitorNext ==
    \/ MonWake
    \/ MonNoQuote
    \/ \E price \in MarketPrices, rate \in MonitorFundingValues : MonQuote(price, rate)
    \/ \E price \in MarketPrices, rate \in MonitorFundingValues :
           MonQuoteRaises(price, rate)
    \/ \E r \in Replies : MonCloseDone(r)

ShutdownNext ==
    \/ ShutdownBegin
    \/ ShutdownClose
    \/ \E r \in Replies : ShutdownCloseDone(r)
    \/ ShutdownExit

\* the bot: the main loop's executions, the monitor task and the shutdown
BotExecBegin == \E o \in Opportunities : ExecBegin(o, BotPositions)

Next == Tick \/ BotExecBegin \/ ExecSteps \/ MonitorNext \/ ShutdownNext

Spec == Init /\ [][Next]_vars

\* The bot under the event loop's scheduling: a task that can take a step
\* (its sleep is over, or the venue call it awaits has an answer or has timed
\* out) is eventually resumed.  A shutdown is never bound to begin.
ShutdownProceeds ==
    \/ ShutdownClose
    \/ \E r \in Replies : ShutdownCloseDone(r)
    \/ ShutdownExit

SpecLive ==
    /\ Init /\ [][Next]_vars
    /\ WF_vars(MonitorNext)
    /\ WF_vars(ExecSteps)
    /\ WF_vars(ShutdownProceeds)

\* the execution engine on its own: no position is monitored or closed
EngineExecBegin == \E o \in Opportunities : ExecBegin(o, MaxPositions)

NextExec == Tick \/ EngineExecBegin \/ ExecSteps

SpecExec == Init /\ [][NextExec]_vars

\* the steps of an execution against venues that serve every request
ServedExecSteps ==
    \/ PmPlace("ok")
    \/ PmFilled("ok")
    \/ HlPlace("resting", 0)
    \/ HlCheck(TRUE, "ok")
    \/ TwapWave("ok", "resting")
    \/ ExecOpen
    \/ ExecOpenRaises
    \/ ExecUnwound("ok", "ok")

\* ... and of the monitor, with the funding rate at rest
ServedMonitorSteps ==
    \/ MonWake
    \/ \E price \in MarketPrices : MonQuote(price, 0)
    \/ \E price \in MarketPrices : MonQuoteRaises(price, 0)
    \/ MonCloseDone("ok")

\* the engine asked for one position more than the cap on concurrent
\* positions allows, one call at a time as the main loop makes them
NextCap ==
    \/ Tick
    \/ \E o \in Opportunities : ExecBegin(o, CapPositions)
    \/ ServedExecSteps
    \/ ServedMonitorSteps

SpecCap == Init /\ [][NextCap]_vars

\* ... under the event loop's scheduling, with a venue whose order book may
\* also hold a price that is not a number
SpecCapLive ==
    /\ Init /\ [][NextCap \/ MonQuoteRaises(NaN, 0)]_vars
    /\ WF_vars(ServedMonitorSteps \/ MonQuoteRaises(NaN, 0))
    /\ WF_vars(ServedExecSteps)

---------------------------------------------------------------------------
(* _rollback_position called again on a position it has already rolled back *)

MaxRollbacks == 2        \* calls of _rollback_position on one position

RollbackAgain(r_pm, r_hl) ==
    /\ ex.pc = "idle"
    /\ \E pid \in DOMAIN positions :
        /\ book[pid].rollbacks >= 1
        /\ book[pid].rollbacks < MaxRollbacks
        /\ LET rb == Rollback(positions[pid], book[pid], hl_positions, r_pm, r_hl)
           IN /\ positions' = SetAt(positions, pid, rb.position)
              /\ book' = SetAt(book, pid, rb.book)
              /\ hl_positions' = rb.sizes
    /\ UNCHANGED <<calc, val, strategy, now, active_positions, position_history,
                   daily_trade_count, last_trade_reset, funding_rates,
                   ex, mon, shut, ret, reset_count>>

RollbackStep == \E r1, r2 \in Replies : RollbackAgain(r1, r2)

NextRollback == BotExecBegin \/ ExecSteps \/ RollbackStep

SpecRollback == Init /\ [][NextRollback]_vars

---------------------------------------------------------------------------
(* HyperliquidDetector.validate_opportunity *)

\* what a client wrapper is given when its request faults
Fault == -2

\* HyperliquidClient.get_market_data: the mid price of the quote, None when
\* the request faulted
HlGetMarketData(reply) == IF reply = Fault THEN None ELSE reply

\* get_order_book of either client, summed over the side (and, on the
\* perpetual venue, the five levels) the opportunity would take: a faulted
\* request gives empty sides
BookLiquidity(reply) == IF reply = Fault THEN 0 ELSE reply

\* get_balance of either client: a faulted request gives Decimal(0)
GetBalance(reply) == IF reply = Fault THEN 0 ELSE reply

\* what the venues answer to one validation: the quote's mid price and the
\* funding rate that comes with it, the liquidity of the two books, the two
\* balances (whole USD)
ValidateInputs ==
    [quote : {Fault, 4000, 4200},
     rate : FundingValues,
     pm_book : {Fault, 4000},
     hl_book : {Fault, 3},
     pm_balance : {Fault, 1500, 2000},
     hl_balance : {Fault, 2400}]

\* ... and the answers of venues that either serve a request fully or fault
FaultInputs ==
    [quote : {Fault, 4000},
     rate : {0},
     pm_book : {Fault, 4000},
     hl_book : {Fault, 3},
     pm_balance : {Fault, 2000},
     hl_balance : {Fault, 2400}]

\* the messages validate_opportunity returns
MsgExpired == "Market has expired"
MsgNoQuote == "Cannot fetch current Hyperliquid data"
MsgPriceMoved == "Price moved since detection"
MsgHighFunding == "High funding rate"
MsgPmLiquidity == "Reduced Polymarket liquidity"
MsgHlLiquidity == "Insufficient Hyperliquid liquidity"
MsgPmBalance == "Insufficient Polymarket balance"
MsgHlBalance == "Insufficient Hyperliquid balance"
MsgError == "division by zero"

\* w.lower(), as the words it is made of
Lower(w) ==
    CASE w = MsgExpired -> {"market", "has", "expired"}
      [] w = MsgNoQuote -> {"cannot", "fetch", "current", "hyperliquid", "data"}
      [] w = MsgPriceMoved -> {"price", "moved", "since", "detection"}
      [] w = MsgHighFunding -> {"high", "funding", "rate"}
      [] w = MsgPmLiquidity -> {"reduced", "polymarket", "liquidity"}
      [] w = MsgHlLiquidity -> {"insufficient", "hyperliquid", "liquidity"}
      [] w = MsgPmBalance -> {"insufficient", "polymarket", "balance"}
      [] w = MsgHlBalance -> {"insufficient", "hyperliquid", "balance"}
      [] OTHER -> {"division", "by", "zero"}

\* opportunity.expires_at <= datetime.utcnow()
MarketExpiredStrictly(o, t) == o.expires_at < t
MarketExpired(o, t) == o.expires_at <= t

\* abs(mid_price - hedge_price) / hedge_price * 100 > 1
PriceMoved(o, mid) == Abs(mid - o.hedge_price) * 100 > o.hedge_price

\* abs(current_funding) > self.funding_threshold
FundingAboveThreshold(rate) == Abs(rate) > FUNDING_RATE_THRESHOLD

\* available_liquidity < polymarket_quantity * Decimal("0.8")
PmLiquidityReduced(o, liquidity) == liquidity * 10 < o.polymarket_quantity * 8

\* hl_liquidity < hedge_quantity
HlLiquidityInsufficient(o, liquidity) == liquidity < o.hedge_quantity

\* pm_balance < polymarket_quantity * polymarket_price (the price is in cents)
PmBalanceShortOfHalf(o, balance) ==
    balance * 200 < o.polymarket_quantity * o.polymarket_price
PmBalanceShort(o, balance) ==
    balance * 100 < o.polymarket_quantity * o.polymarket_price

\* hl_balance < hedge_quantity * hedge_price / config.DEFAULT_LEVERAGE
HlBalanceShort(o, balance) ==
    balance * DEFAULT_LEVERAGE < o.hedge_quantity * o.hedge_price

\* "liquidity" in w.lower() or "funding" in w.lower()
CriticalLiquidityOnly(w) == "liquidity" \in Lower(w)
Critical(w) == "liquidity" \in Lower(w) \/ "funding" \in Lower(w)

\* the warnings list as the checks fill it, in the order of the checks
ValidationWarnings(o, mid, rate, pm_liquidity, hl_liquidity) ==
    (IF PriceMoved(o, mid) THEN <<MsgPriceMoved>> ELSE << >>)
    \o (IF FundingAboveThreshold(rate) THEN <<MsgHighFunding>> ELSE << >>)
    \o (IF PmLiquidityReduced(o, pm_liquidity) THEN <<MsgPmLiquidity>> ELSE << >>)
    \o (IF HlLiquidityInsufficient(o, hl_liquidity)
        THEN <<MsgHlLiquidity>> ELSE << >>)

\* the venue calls of a validation that runs to the balance checks
AllCalls ==
    <<"hl.get_market_data", "hl.get_funding_rate", "pm.get_order_book",
      "hl.get_order_book", "pm.get_balance", "hl.get_balance">>

\* except Exception as e: return False, [str(e)]
ValidationError(calls) ==
    [valid |-> FALSE, warnings |-> <<MsgError>>, calls |-> calls]

\* validate_opportunity(o) called at time t with the venues answering `in`:
\* the pair it returns and the venue calls it made
ValidateOpportunity(o, t, in) ==
    LET mid == HlGetMarketData(in.quote)
        warnings == ValidationWarnings(o, mid, in.rate,
                        BookLiquidity(in.pm_book), BookLiquidity(in.hl_book))
    IN  IF MarketExpired(o, t)
        THEN [valid |-> FALSE, warnings |-> <<MsgExpired>>, calls |-> << >>]
        ELSE IF mid = None
        THEN [valid |-> FALSE, warnings |-> <<MsgNoQuote>>,
              calls |-> SubSeq(AllCalls, 1, 1)]
        ELSE IF o.hedge_price = 0
        THEN ValidationError(SubSeq(AllCalls, 1, 1))
        ELSE IF PmBalanceShort(o, GetBalance(in.pm_balance))
        THEN [valid |-> FALSE, warnings |-> <<MsgPmBalance>>, calls |-> AllCalls]
        ELSE IF HlBalanceShort(o, GetBalance(in.hl_balance))
        THEN [valid |-> FALSE, warnings |-> <<MsgHlBalance>>, calls |-> AllCalls]
        ELSE [valid |-> \A i \in DOMAIN warnings : ~Critical(warnings[i]),
              warnings |-> warnings, calls |-> AllCalls]

\* One call of validate_opportunity.  The quote request, when it is served,
\* refreshes the funding-rate cache that get_funding_rate then reads.
Validate(o, in) ==
    LET result == ValidateOpportunity(o, now, in)
    IN  /\ val' = [called |-> TRUE, opp |-> o, at |-> now, input |-> in,
                   valid |-> result.valid, warnings |-> result.warnings,
                   calls |-> result.calls]
        /\ funding_rates' =
               IF Len(result.calls) > 0 /\ in.quote # Fault
               THEN [funding_rates EXCEPT ![o.asset] = in.rate]
               ELSE funding_rates
        /\ UNCHANGED <<calc, strategy, now, positions, active_positions,
                       position_history, daily_trade_count, last_trade_reset,
                       hl_positions, book, ex, mon, shut, ret, reset_count>>

ValidateStep == \E o \in Opportunities, in \in ValidateInputs : Validate(o, in)

NextValidate == Tick \/ ValidateStep

SpecValidate == Init /\ [][NextValidate]_vars

\* The two calls ArbitrageBot makes on an opportunity, validation and
\* execution, against venues any of whose requests may fault
ValidateFaulty == \E o \in Opportunities, in \in FaultInputs : Validate(o, in)

NextCaller == ValidateFaulty \/ BotExecBegin \/ ExecSteps

SpecCaller == Init /\ [][NextCaller]_vars

---------------------------------------------------------------------------
(* _create_execution_plan on its own, over strategies, times to expiry and
   expected profits *)

\* hours to expiry at the call (negative past the expiry)
PlanHours == {-1, 0, 1, 2, 3, 4, 5}
\* expected_profit_percentage of the opportunity
PlanProfits == {3, 5, 6}

PlanOpportunities ==
    {[o EXCEPT !.expected_profit_percentage = pr] :
        o \in Opportunities, pr \in PlanProfits}

PlanCall(o, hours) ==
    /\ calc' = [fn |-> "plan", strategy |-> strategy, opp |-> o, hours |-> hours,
                plan |-> CreateExecutionPlan(o, strategy, hours)]
    /\ UNCHANGED <<val, strategy, now, positions, active_positions,
                   position_history, daily_trade_count, last_trade_reset,
                   funding_rates, hl_positions, book, ex, mon, shut, ret,
                   reset_count>>

NextPlan == \E o \in PlanOpportunities, hours \in PlanHours : PlanCall(o, hours)

SpecPlan == Init /\ [][NextPlan]_vars

---------------------------------------------------------------------------
(* HyperliquidArbitrageDetector: one scan pass over the assets.  Amounts are
   whole USD, prediction prices cents, probabilities and funding rates
   thousandths, hedge quantities thousandths of a coin.  An Optional result
   is a sequence of at most one element. *)

MIN_PROFIT_THRESHOLD_USD == 50
PolymarketFeeRate == 2        \* Decimal("0.002"), thousandths
TakerFeeRate == 3             \* Decimal("0.0003"), ten-thousandths
FallbackProbability == 400    \* Decimal("0.4")
MaxTimeBonus == 150           \* Decimal("0.15")
MaxWinProbability == 850      \* Decimal("0.85")

\* self.assets, in the order the scan visits them
AssetList == <<"BTC", "ETH">>

\* the contracts the prediction venue lists; hours is time_to_expiry_hours, a
\* float
ScanContracts ==
    [ m1 |-> [market_id |-> "m1", asset |-> "BTC", target_price |-> 4400,
              up_price |-> 60, down_price |-> 40,
              up_liquidity |-> 20000, down_liquidity |-> 20000, hours |-> 48],
      m3 |-> [market_id |-> "m3", asset |-> "BTC", target_price |-> 4400,
              up_price |-> 60, down_price |-> 40,
              up_liquidity |-> 10000, down_liquidity |-> 10000, hours |-> 72],
      m2 |-> [market_id |-> "m2", asset |-> "ETH", target_price |-> 3600,
              up_price |-> 40, down_price |-> 60,
              up_liquidity |-> 20000, down_liquidity |-> 20000, hours |-> 48],
      m4 |-> [market_id |-> "m4", asset |-> "ETH", target_price |-> 3600,
              up_price |-> 40, down_price |-> 60,
              up_liquidity |-> 20000, down_liquidity |-> 20000, hours |-> 24],
      m5 |-> [market_id |-> "m5", asset |-> "BTC", target_price |-> 4400,
              up_price |-> 60, down_price |-> 40,
              up_liquidity |-> 20000, down_liquidity |-> 20000, hours |-> 0] ]

\* what the prediction venue answers when asked for an asset's contracts
MarketReplies(asset) ==
    IF asset = "BTC"
    THEN { [fault |-> TRUE, markets |-> <<>>],
           [fault |-> FALSE, markets |-> <<>>],
           [fault |-> FALSE, markets |-> <<ScanContracts.m1>>],
           [fault |-> FALSE, markets |-> <<ScanContracts.m3, ScanContracts.m1>>],
           [fault |-> FALSE, markets |-> <<ScanContracts.m5>>] }
    ELSE { [fault |-> TRUE, markets |-> <<>>],
           [fault |-> FALSE, markets |-> <<>>],
           [fault |-> FALSE, markets |-> <<ScanContracts.m2>>],
           [fault |-> FALSE, markets |-> <<ScanContracts.m2, ScanContracts.m4>>] }
ScanQuotes == {Fault, 4000}
ScanFundingValues == FundingValues \cup {-25}

\* get_markets_by_asset: a faulted request is logged and gives []
PolymarketGetMarketsByAsset(reply) == IF reply.fault THEN <<>> ELSE reply.markets

\* the strategy with the hedge on the prediction's own side
DetermineStrategySameSide(current_price, target_price, pm_market, funding_rate) ==
    IF 100 * Abs(current_price - target_price) < target_price THEN <<>>
    ELSE IF current_price < target_price THEN <<"DOWN", "SHORT">>
    ELSE <<"UP", "LONG">>

DetermineStrategy(current_price, target_price, pm_market, funding_rate) ==
    LET funding_bias == funding_rate > 0
    IN IF 100 * Abs(current_price - target_price) < target_price
       THEN <<>>
       ELSE IF current_price < target_price
            THEN IF funding_bias
                 THEN IF pm_market.down_price < 60
                      THEN <<"DOWN", "LONG">> ELSE <<>>
                 ELSE <<"DOWN", "LONG">>
            ELSE IF funding_bias
                 THEN <<"UP", "SHORT">>
                 ELSE IF pm_market.up_price < 60
                      THEN <<"UP", "SHORT">> ELSE <<>>

CalculatePositionSizes(pm_market, mid_price, pm_side, pm_price, funding_cost_pct) ==
    LET pm_liquidity == IF pm_side = "UP" THEN pm_market.up_liquidity
                        ELSE pm_market.down_liquidity
        max_pm_value == Min((MAX_POSITION_SIZE_USD * 4) \div 10, pm_liquidity \div 10)
        pm_quantity == (max_pm_value * 100) \div pm_price
        hedge_value == (pm_quantity * (100 - pm_price) * (1000 + funding_cost_pct))
                           \div 100000
        hedge_capital_required == hedge_value \div DEFAULT_LEVERAGE
        cap == (MAX_POSITION_SIZE_USD * 6) \div 10
        scaled == hedge_capital_required > cap
        pm_scaled == IF scaled THEN (pm_quantity * cap) \div hedge_capital_required
                     ELSE pm_quantity
        hedge_scaled == IF scaled THEN (hedge_value * cap) \div hedge_capital_required
                        ELSE hedge_value
    IN \* a division by zero is caught and gives None
       IF pm_price = 0 \/ mid_price = 0 THEN <<>>
       ELSE <<pm_scaled, (hedge_scaled * 1000) \div mid_price>>

\* distance_pct is a Decimal and time_factor = min(1, hours / 48) a float
\* below 48 hours, the int 1 from there on: the product raises TypeError
\* below 48 hours
EstimateWinProbability(current, target, hours, side) ==
    IF hours < 48 THEN Fault
    ELSE Min(MaxWinProbability, 500 + (1000 * Abs(current - target)) \div current)

CalculateExpectedProfit(pm_quantity, pm_price, hedge_quantity, current_price, target_price, hedge_side, funding_cost_pct, hours) ==
    LET pm_win_profit == (pm_quantity * (100 - pm_price)) \div 100
        hedge_pnl_at_target ==
            IF hedge_side = "LONG"
            THEN (hedge_quantity * (target_price - current_price)) \div 1000
            ELSE (hedge_quantity * (current_price - target_price)) \div 1000
        cost == (hedge_quantity * current_price * Abs(funding_cost_pct)) \div 1000000
        funding_cost == IF hedge_side = "SHORT" /\ funding_cost_pct > 0
                        THEN -cost ELSE cost
        win_profit == pm_win_profit + hedge_pnl_at_target - funding_cost
        pm_loss == (pm_quantity * pm_price) \div 100
        max_risk == pm_loss + funding_cost
        breakeven_price ==
            IF hedge_side = "LONG"
            THEN current_price + (pm_loss * 1000) \div hedge_quantity
            ELSE current_price - (pm_loss * 1000) \div hedge_quantity
        prob == EstimateWinProbability(current_price, target_price, hours, hedge_side)
    IN \* any exception is caught and gives None
       IF hedge_quantity = 0 \/ current_price = 0 \/ prob = Fault THEN <<>>
       ELSE << [expected_profit |-> (prob * win_profit - (1000 - prob) * pm_loss)
                                        \div 1000,
                max_risk |-> max_risk, breakeven_price |-> breakeven_price,
                win_profit |-> win_profit, pm_loss |-> pm_loss] >>

CalculateTotalFees(pm_value, hedge_value) ==
    (pm_value * PolymarketFeeRate) \div 1000
    + (hedge_value * TakerFeeRate * 2) \div 10000

\* the arguments of _calculate_probability_with_funding that may arrive as
\* Decimal (as annotated) or as float; hours_to_expiry is a float
DecimalArgs == {"current_price", "target_price", "funding_rate"}

\* what stats.norm.cdf gives for the z-score: nan past the expiry (sqrt of
\* a negative time), 0, 1 or nan at the expiry (division by a zero deviation)
NormCdfValues(hours) ==
    IF hours < 0 THEN {NaN}
    ELSE IF hours = 0 THEN {0, 1000, NaN}
    ELSE {0, 100, 500, 900, 1000}

UnclampedProbabilityWithFunding(decimals, hours, side, cdf) ==
    LET value == IF side = "DOWN" THEN cdf ELSE 1000 - cdf
        time_bonus == Min(MaxTimeBonus, (hours * 1000) \div 168)
        probability == (value * (1000 + time_bonus)) \div 1000
    IN IF decimals # {} \/ cdf = NaN THEN FallbackProbability
       ELSE probability

\* drift * time_years, target_price / (1 + expected_return) and
\* adjusted_target - current_price each mix a Decimal argument with a float
\* and raise TypeError; a nan probability raises InvalidOperation in min().
\* Every exception gives the fallback.
CalculateProbabilityWithFunding(decimals, hours, side, cdf) ==
    LET value == IF side = "DOWN" THEN cdf ELSE 1000 - cdf
        time_bonus == Min(MaxTimeBonus, (hours * 1000) \div 168)
        probability == (value * (1000 + time_bonus)) \div 1000
    IN IF decimals # {} \/ cdf = NaN THEN FallbackProbability
       ELSE Max(0, Min(1000, probability))

\* _analyze_market_pair; win_profit, loss and fees are kept beside the
\* opportunity's own fields to state what its expected profit was made of
AnalyzeMarketPair(pm_market, mid_price, funding_rate) ==
    LET current_price == mid_price
        target_price == pm_market.target_price
        hours_to_expiry == pm_market.hours
        funding_cost_pct == funding_rate * (hours_to_expiry \div 8)
        sides == DetermineStrategy(current_price, target_price, pm_market,
                                   funding_rate)
        pm_side == sides[1]
        hedge_side == sides[2]
        pm_price == IF pm_side = "UP" THEN pm_market.up_price
                    ELSE pm_market.down_price
        sizes == CalculatePositionSizes(pm_market, mid_price, pm_side, pm_price,
                                        funding_cost_pct)
        pm_quantity == sizes[1]
        hedge_quantity == sizes[2]
        profit_calc == CalculateExpectedProfit(pm_quantity, pm_price,
                           hedge_quantity, current_price, target_price,
                           hedge_side, funding_cost_pct, hours_to_expiry)
        pm_value == (pm_quantity * pm_price) \div 100
        hedge_value == (hedge_quantity * current_price) \div 1000
        total_fees == CalculateTotalFees(pm_value, hedge_value)
        expected_profit == profit_calc[1].expected_profit - total_fees
        \* the detector passes Decimal prices and a Decimal funding rate
        prob_profit == CalculateProbabilityWithFunding(DecimalArgs,
                           hours_to_expiry, pm_side, NaN)
        total_capital == pm_value + hedge_value \div DEFAULT_LEVERAGE
    IN IF hours_to_expiry <= 0 THEN <<>>
       ELSE IF funding_cost_pct < -FUNDING_RATE_THRESHOLD THEN <<>>
       ELSE IF sides = <<>> THEN <<>>
       ELSE IF pm_price > 90 THEN <<>>
       ELSE IF sizes = <<>> THEN <<>>
       ELSE IF profit_calc = <<>> THEN <<>>
       ELSE IF expected_profit < MIN_PROFIT_THRESHOLD_USD THEN <<>>
       ELSE IF total_capital = 0 THEN <<>>
       ELSE << [opportunity_id |-> pm_market.market_id,
                asset |-> pm_market.asset,
                polymarket_side |-> pm_side, hedge_side |-> hedge_side,
                polymarket_price |-> pm_price,
                polymarket_quantity |-> pm_quantity,
                hedge_price |-> current_price,
                hedge_quantity |-> hedge_quantity,
                expected_profit_usd |-> expected_profit,
                expected_profit_percentage |->
                    (expected_profit * 100) \div total_capital,
                breakeven_price |-> profit_calc[1].breakeven_price,
                max_risk_usd |-> profit_calc[1].max_risk,
                probability_of_profit |-> prob_profit,
                win_profit |-> profit_calc[1].win_profit,
                loss |-> profit_calc[1].pm_loss,
                fees |-> total_fees] >>

\* the inner loop of the scan over one asset's contracts
RECURSIVE AnalyzeAll(_, _, _)
AnalyzeAll(polymarkets, mid_price, funding_rate) ==
    IF polymarkets = <<>> THEN <<>>
    ELSE AnalyzeMarketPair(Head(polymarkets), mid_price, funding_rate)
         \o AnalyzeAll(Tail(polymarkets), mid_price, funding_rate)

\* the sort key of the scan
RiskAdjusted(x) == x.expected_profit_usd * x.probability_of_profit

RECURSIVE InsertByRisk(_, _)
InsertByRisk(x, s) ==
    IF s = <<>> THEN <<x>>
    ELSE IF RiskAdjusted(Head(s)) >= RiskAdjusted(x)
         THEN <<Head(s)>> \o InsertByRisk(x, Tail(s))
         ELSE <<x>> \o s

AsFound(s) == s

\* list.sort(key, reverse=True): stable, largest key first
RECURSIVE SortByRisk(_)
SortByRisk(s) ==
    IF s = <<>> THEN <<>>
    ELSE InsertByRisk(s[Len(s)], SortByRisk(SubSeq(s, 1, Len(s) - 1)))

\* how the pass over one asset ended
AssetOutcome(polymarkets, hl_market) ==
    IF polymarkets = <<>> THEN "no_markets"
    ELSE IF hl_market = None THEN "no_quote"
    ELSE "analysed"

NextAssetBreaks(outcome, i) ==
    IF outcome = "analysed" THEN i + 1 ELSE Len(AssetList) + 1

\* `continue` on a missing fetch, and the except clause around the loop's
\* body: the loop goes on with the next asset whatever happened
NextAsset(outcome, i) == i + 1

ScanBegin ==
    /\ calc.fn = "scan" => calc.pc = "returned"
    /\ calc' = [fn |-> "scan", pc |-> "asset", i |-> 1, opportunities |-> <<>>,
                replies |-> <<>>, result |-> <<>>]
    /\ UNCHANGED <<val, strategy, now, positions, active_positions,
                   position_history, daily_trade_count, last_trade_reset,
                   funding_rates, hl_positions, book, ex, mon, shut, ret,
                   reset_count>>

\* one turn of the loop over the assets
ScanAsset(reply, quote, rate) ==
    /\ calc.fn = "scan" /\ calc.pc = "asset" /\ calc.i <= Len(AssetList)
    /\ LET asset == AssetList[calc.i]
           polymarkets == PolymarketGetMarketsByAsset(reply)
           asked == polymarkets # <<>>
           hl_market == IF asked THEN HlGetMarketData(quote) ELSE None
           \* get_market_data stores the funding rate that came with the quote
           rates == IF asked /\ quote # Fault
                    THEN [funding_rates EXCEPT ![asset] = rate]
                    ELSE funding_rates
           outcome == AssetOutcome(polymarkets, hl_market)
           found == IF outcome = "analysed"
                    THEN AnalyzeAll(polymarkets, hl_market, rates[asset])
                    ELSE <<>>
       IN /\ funding_rates' = rates
          /\ calc' = [calc EXCEPT
                !.i = NextAsset(outcome, calc.i),
                !.opportunities = @ \o found,
                !.replies = Append(@, [asset |-> asset, outcome |-> outcome,
                                       found |-> found])]
    /\ UNCHANGED <<val, strategy, now, positions, active_positions,
                   position_history, daily_trade_count, last_trade_reset,
                   hl_positions, book, ex, mon, shut, ret, reset_count>>

\* the sort, last_opportunities and the return
ScanReturn ==
    /\ calc.fn = "scan" /\ calc.pc = "asset" /\ calc.i > Len(AssetList)
    /\ calc' = [calc EXCEPT !.pc = "returned",
                            !.result = SortByRisk(calc.opportunities)]
    /\ UNCHANGED <<val, strategy, now, positions, active_positions,
                   position_history, daily_trade_count, last_trade_reset,
                   funding_rates, hl_positions, book, ex, mon, shut, ret,
                   reset_count>>

ScanAssetStep ==
    /\ calc.fn = "scan" /\ calc.pc = "asset" /\ calc.i <= Len(AssetList)
    /\ \E reply \in MarketReplies(AssetList[calc.i]), quote \in ScanQuotes,
          rate \in ScanFundingValues :
           ScanAsset(reply, quote, rate)

NextScan == ScanBegin \/ ScanAssetStep \/ ScanReturn

SpecScan == Init /\ [][NextScan]_vars

\* _calculate_probability_with_funding on its own
ProbHours == {-1, 0, 1, 24, 48}

ProbCall(decimals, hours, side, cdf) ==
    /\ calc' = [fn |-> "probability", decimals |-> decimals, hours |-> hours,
                side |-> side, cdf |-> cdf,
                result |-> CalculateProbabilityWithFunding(decimals, hours,
                                                           side, cdf)]
    /\ UNCHANGED <<val, strategy, now, positions, active_positions,
                   position_history, daily_trade_count, last_trade_reset,
                   funding_rates, hl_positions, book, ex, mon, shut, ret,
                   reset_count>>

NextProb ==
    \E decimals \in SUBSET DecimalArgs, hours \in ProbHours,
       side \in {"UP", "DOWN"} :
        \E cdf \in NormCdfValues(hours) : ProbCall(decimals, hours, side, cdf)

SpecProb == Init /\ [][NextProb]_vars

---------------------------------------------------------------------------
(* ArbitrageBot._process_opportunity after the validation, and the bot with
   enable_live_trading = False *)

\* ArbitrageOpportunity.time_value is a Decimal, which has no total_seconds
TimeValueHasTotalSeconds == FALSE

ProcessOutcomeUnguarded(live, is_valid) ==
    IF is_valid THEN "execute" ELSE "invalid"

\* The TradeSignal is built from opportunity.time_value.total_seconds():
\* building it raises AttributeError, which the method's except clause logs.
\* Past it, the executor is called only with live trading enabled; otherwise
\* the paper trade is logged.
ProcessOutcome(live, is_valid) ==
    IF ~is_valid THEN "invalid"
    ELSE IF ~TimeValueHasTotalSeconds THEN "raised"
    ELSE IF live THEN "execute"
    ELSE "paper"

ProcessDecide(live) ==
    /\ val.called
    /\ ex.pc = "idle"
    /\ shut.pc = "running"
    /\ LET outcome == ProcessOutcome(live, val.valid)
       IN IF outcome = "execute"
          THEN ExecBegin(val.opp, BotPositions)
          ELSE /\ calc' = [fn |-> "process", opp |-> val.opp.opportunity_id,
                           at |-> now, outcome |-> outcome]
               /\ UNCHANGED <<val, strategy, now, positions, active_positions,
                              position_history, daily_trade_count,
                              last_trade_reset, funding_rates, hl_positions,
                              book, ex, mon, shut, ret, reset_count>>

\* the positions shutdown closes
ShutdownQueue(live) == IF live THEN Sorted(active_positions) ELSE << >>

PaperShutdownBegin ==
    /\ shut.pc = "running"
    /\ shut' = [pc |-> "closing", queue |-> ShutdownQueue(FALSE)]
    /\ UNCHANGED <<calc, val, strategy, now, positions, active_positions,
                   position_history, daily_trade_count, last_trade_reset,
                   funding_rates, hl_positions, book, ex, mon, ret,
                   reset_count>>

\* the bot started without --live: scan cycles' validations and decisions,
\* and the shutdown
NextPaper ==
    \/ Tick
    \/ (shut.pc = "running" /\ ValidateFaulty)
    \/ ProcessDecide(FALSE)
    \/ PaperShutdownBegin
    \/ ShutdownExit

SpecPaper == Init /\ [][NextPaper]_vars

\* the bot started with --live: scan cycles' validations and decisions
NextLiveTrading ==
    \/ Tick
    \/ (shut.pc = "running" /\ ValidateFaulty)
    \/ ProcessDecide(TRUE)

SpecLiveTrading == Init /\ [][NextLiveTrading]_vars

---------------------------------------------------------------------------
(* Properties *)

Pids == DOMAIN positions

\* the call of execute_opportunity in progress returns in this step
Returns == ex.pc # "idle" /\ ex'.pc = "idle"

\* the outcome _execute_parallel / _execute_twap reports for the two legs
LegsFilled(e) ==
    \/ e.pc = "legs" /\ e.pm_success /\ e.hl_success
    \/ /\ e.pc = "twapdone"
       /\ 5 * e.pm_ok > 4 * e.plan.polymarket_chunks
       /\ 5 * e.hl_ok > 4 * e.plan.hyperliquid_chunks

\* ... to the call in progress, or had reported to it when its log line raised
BothLegsFilled ==
    \/ LegsFilled(ex)
    \/ ex.pc = "unwinding" /\ LegsFilled(ex.legs)

\* C1: a position's status only moves forward, from PENDING, OPEN or PARTIAL
\* to OPEN, PARTIAL, CLOSED, CANCELLED or ERROR; a terminal status (CLOSED,
\* CANCELLED, ERROR) never changes again.
C1_StatusMovesForward ==
    [][\A pid \in Pids :
          positions'[pid].status # positions[pid].status
          => /\ positions[pid].status \in {"PENDING", "OPEN", "PARTIAL"}
             /\ positions'[pid].status \in {"OPEN", "PARTIAL"} \cup Terminal]_vars

C4_FilledLegUnwound ==
    (/\ ret.why = "leg_failed"
     /\ ex.pc = "idle"
     /\ positions[ret.pid].polymarket_quantity > 0
     /\ positions[ret.pid].hedge_order_id = None)
    => /\ positions[ret.pid].status = "CANCELLED"
       /\ book[ret.pid].pm_unwinds = 1
       /\ book[ret.pid].pm_net = 0
       /\ book[ret.pid].hl_net = 0

\* C5: _rollback_position is idempotent: a call on a position that has been
\* rolled back before sends no unwind order, moves nothing at the venue and
\* leaves the status as it is.
C5_RollbackIdempotent ==
    [][\A pid \in Pids :
          (book[pid].rollbacks >= 1 /\ book'[pid].rollbacks > book[pid].rollbacks)
          => /\ book'[pid].pm_unwinds = book[pid].pm_unwinds
             /\ book'[pid].hl_unwinds = book[pid].hl_unwinds
             /\ hl_positions' = hl_positions
             /\ positions'[pid].status = positions[pid].status]_vars

\* C6: a rollback one of whose unwind orders failed (refused by the venue, or
\* the request faulted) leaves the position ERROR, not CANCELLED.
C6_FailedUnwindIsError ==
    \A pid \in Pids :
        book[pid].unwind_failed => positions[pid].status = "ERROR"

\* C7: when the shared deadline ends a call with a leg still pending, the
\* position is rolled back and no entry order of the call is left resting at
\* a venue once the call has returned None.
C7_DeadlineCancelsOrders ==
    ret.why = "deadline"
    => /\ ret.value = "None"
       /\ positions[ret.pid].status \in {"CANCELLED", "ERROR"}
       /\ book[ret.pid].pm_live = 0
       /\ book[ret.pid].hl_live = 0

\* C8: within one call both legs' orders are submitted before either leg's
\* wait for its fill completes.
C8_BothSubmittedBeforeWait ==
    ex.pc = "legs"
    => /\ (ex.pm = "done" /\ ex.pm_success) => ex.hl # "start"
       /\ (ex.hl = "done" /\ ex.hl_success) => ex.pm # "start"

C10_ResetOncePerDate ==
    [][/\ last_trade_reset' # last_trade_reset
          => /\ DateOf(now) > last_trade_reset
             /\ last_trade_reset' = DateOf(now)
             /\ daily_trade_count' = 0
             /\ reset_count' = reset_count + 1
       /\ daily_trade_count' < daily_trade_count
          => last_trade_reset' # last_trade_reset
       /\ reset_count' # reset_count => last_trade_reset' # last_trade_reset
       /\ (ex.pc = "idle" /\ (ex'.pc # "idle" \/ ret' # ret)
              /\ DateOf(now) > last_trade_reset)
          => last_trade_reset' = DateOf(now)
       /\ reset_count <= DateOf(now) - DateOf(0)]_vars

\* the counter was reset on a date change and a trade has been counted on the
\* new date, after a trade counted the day before
C10_Witness ==
    /\ reset_count >= 1
    /\ last_trade_reset = DateOf(now)
    /\ daily_trade_count = 1
    /\ Cardinality(active_positions) = 2

\* C11: between two resets at most max_daily_trades positions are opened: the
\* counter never exceeds the cap, a call that finds the counter at the cap is
\* rejected, and the counter goes up only by one and only in a call that
\* opens a position (the call returns the position, which is OPEN).
C11_DailyCapCountsOpened ==
    [][/\ daily_trade_count <= max_daily_trades
       /\ (ex.pc = "idle" /\ ex'.pc # "idle")
          => daily_trade_count' < max_daily_trades
       /\ daily_trade_count' > daily_trade_count
          => /\ daily_trade_count' = daily_trade_count + 1
             /\ Returns
             /\ ret'.value = "Position"
             /\ positions'[ex.pid].status = "OPEN"]_vars

\* the last validate_opportunity call returned the warning w
Warned(w) == \E i \in DOMAIN val.warnings : val.warnings[i] = w

\* the last validate_opportunity call met none of the hard rejects: the market
\* had not expired, the quote was fetched and both balances cover the capital
NoHardReject ==
    /\ val.called
    /\ val.opp.expires_at > val.at
    /\ val.input.quote # Fault
    /\ GetBalance(val.input.pm_balance) * 100
           >= val.opp.polymarket_quantity * val.opp.polymarket_price
    /\ GetBalance(val.input.hl_balance) * DEFAULT_LEVERAGE
           >= val.opp.hedge_quantity * val.opp.hedge_price

\* C12: validate_opportunity on an opportunity whose expires_at is not in the
\* future returns (False, [the expiry reason]) and makes no venue call before
\* returning: no quote, funding, order-book or balance fetch.
C12_ExpiredRejectedWithoutCalls ==
    (val.called /\ val.opp.expires_at <= val.at)
    => /\ val.valid = FALSE
       /\ val.warnings = <<MsgExpired>>
       /\ val.calls = << >>

\* an opportunity was validated at the very instant of its expiry, with the
\* venues ready to serve every request
C12_Witness ==
    /\ val.called
    /\ val.opp.expires_at = val.at
    /\ val.calls = << >>
    /\ \A f \in DOMAIN val.input : val.input[f] # Fault

\* C13: validate_opportunity returns False whenever the hedge quote cannot be
\* fetched, or the balance on either venue is less than the capital the
\* opportunity requires there, whatever the other checks find.
C13_HardRejectsAlwaysReject ==
    (/\ val.called
     /\ \/ val.input.quote = Fault
        \/ GetBalance(val.input.pm_balance) * 100
               < val.opp.polymarket_quantity * val.opp.polymarket_price
        \/ GetBalance(val.input.hl_balance) * DEFAULT_LEVERAGE
               < val.opp.hedge_quantity * val.opp.hedge_price)
    => val.valid = FALSE

\* an unexpired opportunity with the quote fetched, unmoved, no funding and
\* full books was rejected for the prediction venue's balance alone
C13_Witness ==
    /\ val.called
    /\ val.opp.expires_at > val.at
    /\ val.input.quote = val.opp.hedge_price
    /\ val.input.rate = 0
    /\ val.input.pm_book # Fault /\ val.input.hl_book # Fault
    /\ val.input.pm_balance # Fault /\ val.input.hl_balance # Fault
    /\ val.input.pm_balance * 100
           < val.opp.polymarket_quantity * val.opp.polymarket_price
    /\ val.valid = FALSE
    /\ val.warnings = <<MsgPmBalance>>

\* C14: when no hard reject holds, validate_opportunity accepts exactly when
\* it produced no liquidity warning and no funding warning: a price-moved
\* warning on its own never blocks, any liquidity or funding warning does.
C14_OnlyLiquidityAndFundingBlock ==
    NoHardReject
    => /\ val.valid = (/\ ~Warned(MsgHighFunding)
                       /\ ~Warned(MsgPmLiquidity)
                       /\ ~Warned(MsgHlLiquidity))
       /\ \A i \in DOMAIN val.warnings :
              val.warnings[i] \in {MsgPriceMoved, MsgHighFunding,
                                   MsgPmLiquidity, MsgHlLiquidity}
       /\ Warned(MsgHighFunding) = (Abs(val.input.rate) > FUNDING_RATE_THRESHOLD)
       /\ Warned(MsgPmLiquidity)
              = (BookLiquidity(val.input.pm_book) * 10
                     < val.opp.polymarket_quantity * 8)
       /\ Warned(MsgHlLiquidity)
              = (BookLiquidity(val.input.hl_book) < val.opp.hedge_quantity)

\* an opportunity was accepted although the price had moved since detection
C14_Witness ==
    /\ NoHardReject
    /\ val.valid = TRUE
    /\ val.warnings = <<MsgPriceMoved>>

\* C15: neither call hands a venue fault to its caller.  Whatever the venues
\* answer, a call of execute_opportunity that got to its orders returns a
\* Position or None; the only exception that leaves execute_opportunity is
\* raised by the pre-checks' exposure sum over a registered position without
\* hedge price, before any venue is asked.  validate_opportunity always
\* returns a pair, and (False, reasons) when any of its venue calls faulted.
C15_VenueFaultsNeverPropagate ==
    [][/\ Returns => ret'.value \in {"Position", "None"}
       /\ (ret' # ret /\ ret'.value = "Raised")
          => /\ ex.pc = "idle" /\ ex'.pc = "idle"
             /\ \E a \in Assets : ExposureRaises(a)
             /\ book' = book
             /\ hl_positions' = hl_positions
       /\ val' # val
          => /\ val'.called
             /\ val'.valid \in BOOLEAN
             /\ (\E f \in DOMAIN val'.input : val'.input[f] = Fault)
                => (val'.valid = FALSE /\ Len(val'.warnings) >= 1)]_vars

\* an unexpired opportunity was rejected because an order-book request
\* faulted, and a call of execute_opportunity returned None with an unwind
\* order of its rollback refused or faulted
C15_Witness ==
    /\ val.called /\ val.valid = FALSE
    /\ val.input.quote # Fault /\ val.input.pm_book = Fault
    /\ val.calls = AllCalls
    /\ ret.value = "None" /\ ret.pid > 0
    /\ book[ret.pid].unwind_failed

\* the monitor task is in the course of a pass or in the sleep between passes
MonitorRunning == mon.pc \in {"sleep", "quote", "close"}

\* C16: an error raised inside an iteration of monitor_positions never ends
\* the loop: as long as the bot has not exited, the task is again and again
\* in a pass or in the sleep between two passes, whatever iterations failed.
C16_MonitorSurvivesErrors ==
    []<>(MonitorRunning \/ shut.pc = "exited")

\* an iteration has failed and the task is in its backoff sleep, the bot
\* running
C16_Witness ==
    /\ mon.pc = "backoff"
    /\ shut.pc = "running"
    /\ \E pid \in active_positions : positions[pid].hedge_entry_price = None

\* C17: a position that is OPEN when its expires_at has passed is closed by
\* the monitor: it eventually leaves OPEN (unless the bot exits first), a pass
\* never asks for the quote of an OPEN position it finds expired, and after
\* the expiry close the pass goes on with the next position, without the
\* stop-loss, take-profit or funding evaluation of the closed one.
C17_ExpiredPositionsClosed ==
    /\ \A pid \in 1..BotPositions :
          (/\ pid \in Pids
           /\ positions[pid].status = "OPEN"
           /\ now >= positions[pid].expires_at)
          ~> (\/ ~(pid \in Pids /\ positions[pid].status = "OPEN")
              \/ shut.pc = "exited")
    /\ [][/\ (mon' # mon /\ mon'.pc = "quote")
             => now < positions'[Head(mon'.queue)].expires_at
          /\ (mon' # mon /\ mon.pc = "close" /\ mon.reason = "expired")
             => /\ positions'[Head(mon.queue)].status \in {"CLOSED", "ERROR"}
                /\ positions'[Head(mon.queue)].unrealized_pnl
                       = positions[Head(mon.queue)].unrealized_pnl
                /\ funding_rates' = funding_rates
                /\ \/ mon'.pc = "sleep"
                   \/ /\ mon'.pc \in {"quote", "close"}
                      /\ Len(mon'.queue) < Len(mon.queue)]_vars

\* the monitor has closed a position on expiry, the bot running: the position
\* is CLOSED from its expiry on with no P&L ever evaluated for it and no
\* funding rate past the monitor's band in the cache
C17_Witness ==
    \E pid \in Pids :
        /\ positions[pid].status = "CLOSED"
        /\ positions[pid].closed_at >= positions[pid].expires_at
        /\ positions[pid].unrealized_pnl = 0
        /\ Abs(funding_rates[positions[pid].asset]) <= FUNDING_RATE_THRESHOLD * 3
        /\ position_history = <<pid>>
        /\ mon.pc = "sleep"
        /\ shut.pc = "running"

C19_AtMostOneClose ==
    \A pid \in Pids :
        /\ book[pid].closes <= 1
        /\ Cardinality({i \in DOMAIN position_history :
                            position_history[i] = pid}) <= 1

\* the opportunity a position was opened for
OppOf(p) == CHOOSE o \in Opportunities : o.opportunity_id = p.opportunity_id

\* both legs of the position filled in full at the opportunity's prices
FilledAsAssumed(p) ==
    /\ p.polymarket_entry_price = OppOf(p).polymarket_price
    /\ p.polymarket_quantity = OppOf(p).polymarket_quantity
    /\ p.hedge_entry_price = OppOf(p).hedge_price
    /\ p.hedge_quantity = OppOf(p).hedge_quantity

\* C20: for every position opened with both legs filled at the assumed
\* prices the stop loss lies strictly on the losing side of the hedge entry
\* price and the take profit strictly between the entry price and the
\* opportunity's breakeven price: stop_loss < entry < take_profit < breakeven
\* for a long hedge, breakeven < take_profit < entry < stop_loss for a short.
C20_RiskLevelsOrdered ==
    \A pid \in Pids :
        LET p == positions[pid]
        IN (p.status = "OPEN" /\ FilledAsAssumed(p))
           => IF p.hedge_side = "LONG"
              THEN /\ p.stop_loss_price < p.hedge_entry_price
                   /\ p.hedge_entry_price < p.take_profit_price
                   /\ p.take_profit_price < OppOf(p).breakeven_price
              ELSE /\ OppOf(p).breakeven_price < p.take_profit_price
                   /\ p.take_profit_price < p.hedge_entry_price
                   /\ p.hedge_entry_price < p.stop_loss_price

\* C21: with the PASSIVE strategy the plan always uses post-only limit
\* orders, never market orders, and the long time budget (120 s), for every
\* opportunity, those close to expiry included.
C21_PassiveAlwaysLimit ==
    (calc.fn = "plan" /\ calc.strategy = "PASSIVE")
    => /\ calc.plan.use_market_orders = FALSE
       /\ calc.plan.post_only = TRUE
       /\ calc.plan.time_limit = 120

C23_AdaptiveMarketRule ==
    (calc.fn = "plan" /\ calc.strategy = "ADAPTIVE")
    => /\ calc.plan.use_market_orders
              = (calc.hours < 2 \/ calc.opp.expected_profit_percentage > 5)
       /\ calc.plan.leverage > DEFAULT_LEVERAGE
              => calc.opp.expected_profit_percentage > 5
       /\ calc.plan.leverage <= MAX_LEVERAGE

\* C24: time-sliced execution reports success only if, on each leg, the
\* quantity actually filled at the venue is more than 80% of the leg's
\* target quantity.
C24_TwapSuccessNeedsFills ==
    (/\ ex.pc = "twapdone"
     /\ 5 * ex.pm_ok > 4 * ex.plan.polymarket_chunks
     /\ 5 * ex.hl_ok > 4 * ex.plan.hyperliquid_chunks)
    => /\ 5 * Abs(book[ex.pid].pm_net) > 4 * ex.opp.polymarket_quantity
       /\ 5 * Abs(book[ex.pid].hl_net) > 4 * ex.opp.hedge_quantity

ScanReturned == calc.fn = "scan" /\ calc.pc = "returned"

C26_FetchFailureSkipsAsset ==
    /\ calc.fn = "scan" => calc.pc \in {"asset", "returned"}
    /\ ScanReturned =>
        /\ Len(calc.replies) = Len(AssetList)
        /\ \A k \in 1..Len(AssetList) : calc.replies[k].asset = AssetList[k]
        /\ Len(calc.result) = Len(calc.opportunities)
        /\ {calc.result[i] : i \in 1..Len(calc.result)}
           = UNION {{calc.replies[k].found[i] : i \in 1..Len(calc.replies[k].found)} :
                        k \in 1..Len(calc.replies)}

C26_Witness ==
    /\ ScanReturned
    /\ calc.replies[1].outcome # "analysed"
    /\ calc.replies[2].outcome = "analysed"
    /\ calc.result # <<>>
    /\ calc.result = calc.replies[2].found

\* C27: every emitted opportunity's expected_profit_usd equals
\* p * win_profit - (1 - p) * loss - fees with p its own probability_of_profit.
C27_ExpectedProfitFromStoredProbability ==
    calc.fn = "scan" =>
        \A i \in 1..Len(calc.opportunities) :
            LET o == calc.opportunities[i]
                p == o.probability_of_profit
            IN o.expected_profit_usd
               = (p * o.win_profit - (1000 - p) * o.loss) \div 1000 - o.fees

\* C28: the probability of profit the detector returns lies in [0, 1],
\* the fallback of a failed computation included.
C28_ProbabilityInUnitInterval ==
    calc.fn = "probability" => calc.result \in 0..1000

C28_Witness ==
    /\ calc.fn = "probability"
    /\ calc.decimals = {}
    /\ calc.cdf = 900 /\ calc.side = "DOWN" /\ calc.hours = 48
    /\ calc.result = 1000

\* the steps that place, cancel or close an order once an execution has
\* begun or a position exists: those of the engine, of the monitor and of a
\* shutdown's closes
OrderSteps ==
    \/ ExecSteps
    \/ MonitorNext
    \/ ShutdownClose
    \/ \E r \in Replies : ShutdownCloseDone(r)

\* C29: without live trading the executor is never called and no order is
\* placed, cancelled or closed on either venue: no execution is in progress,
\* no position, order or venue exposure exists, and no step of the engine,
\* the monitor or a shutdown close can be taken.
C29_PaperTradingPlacesNoOrder ==
    /\ ex.pc = "idle"
    /\ ret.value = "-"
    /\ positions = << >>
    /\ active_positions = {}
    /\ position_history = << >>
    /\ book = << >>
    /\ \A a \in Assets : hl_positions[a] = 0
    /\ daily_trade_count = 0
    /\ ~ENABLED OrderSteps

C29_Witness ==
    /\ calc.fn = "process"
    /\ calc.outcome = "raised"
    /\ val.called /\ val.valid
    /\ shut.pc = "exited"

\* every position that has ended is in the history, once the call that
\* ended it has returned
HistoryRecordsTerminal ==
    ex.pc = "idle" =>
        \A pid \in Pids :
            positions[pid].status \in Terminal
            => \E i \in 1..Len(position_history) : position_history[i] = pid

\* a step leaves the entries the history had where they were
HistoryAppendOnly ==
    /\ Len(position_history') >= Len(position_history)
    /\ SubSeq(position_history', 1, Len(position_history)) = position_history

\* C30: position_history only grows at its end (no entry is removed or
\* reordered), and every position that has ended in CLOSED, CANCELLED or
\* ERROR is recorded in it.
C30_HistoryAppendOnlyAndComplete ==
    /\ [][HistoryAppendOnly]_vars
    /\ []HistoryRecordsTerminal

\* C31: active_positions never holds more than MAX_CONCURRENT_POSITIONS
\* entries.
C31_ActiveWithinCap == Cardinality(active_positions) <= max_concurrent

C31_Witness ==
    /\ Cardinality(active_positions) = max_concurrent
    /\ ret.value = "None" /\ ret.why = "precheck"
    /\ daily_trade_count < max_daily_trades
    /\ \A a \in Assets : ~ExtremeFunding(funding_rates[a])
    /\ \E o \in Opportunities :
           ~ExposureRaises(o.asset) /\ ~ConcentrationReached(o.asset)

\* C32: every opportunity the detector emits pairs its sides with the price
\* relation at detection: hedge mid below the contract's target gives DOWN
\* with a LONG hedge, otherwise UP with a SHORT hedge; none is emitted for a
\* contract with no time left.
C32_SidesFollowPriceRelation ==
    calc.fn = "scan" =>
        \A i \in 1..Len(calc.opportunities) :
            LET o == calc.opportunities[i]
                c == ScanContracts[o.opportunity_id]
            IN /\ c.hours > 0
               /\ IF o.hedge_price < c.target_price
                  THEN o.polymarket_side = "DOWN" /\ o.hedge_side = "LONG"
                  ELSE o.polymarket_side = "UP" /\ o.hedge_side = "SHORT"

C32_Witness ==
    /\ ScanReturned
    /\ \E i, j \in 1..Len(calc.result) :
          /\ calc.result[i].polymarket_side = "DOWN"
          /\ calc.result[i].hedge_side = "LONG"
          /\ calc.result[j].polymarket_side = "UP"
          /\ calc.result[j].hedge_side = "SHORT"
    /\ \E k \in 1..Len(calc.replies) : calc.replies[k].asset = "ETH"

\* the monitor decides to close a position for its funding rate only with the
\* rate's magnitude past the hard threshold, which lies past the pre-check's
FundingCloseOnlyPastHard ==
    /\ \A rate \in MonitorFundingValues : HighFunding(rate) => ExtremeFunding(rate)
    /\ \E rate \in MonitorFundingValues : ExtremeFunding(rate) /\ ~HighFunding(rate)
    /\ (mon'.pc = "close" /\ mon'.reason = "funding" /\ mon' # mon)
       => HighFunding(funding_rates'[positions[Head(mon'.queue)].asset])

\* an OPEN position whose turn it is in a monitor pass goes to a close when
\* the funding rate of its asset is past the hard threshold
PastHardCloses ==
    (/\ mon.pc = "quote" /\ mon' # mon
     /\ positions[Head(mon.queue)].status = "OPEN"
     /\ HighFunding(funding_rates'[positions[Head(mon.queue)].asset]))
    => mon'.pc = "close" /\ Head(mon'.queue) = Head(mon.queue)

\* C33: the monitor's funding threshold is strictly wider than the one
\* applied before entry; a position is closed for reason funding only when the
\* rate's magnitude is past the monitor's hard threshold, and whenever it is
\* past it on a tick the OPEN position is closed.
C33_FundingCloseAtHardThreshold ==
    [][FundingCloseOnlyPastHard /\ PastHardCloses]_vars

\* what a monitor pass may do with the OPEN position whose turn it is: leave
\* it as it is (no quote), go to its close (a level is breached at the quoted
\* price), or update its unrealized_pnl alone and, with the funding rate
\* within its threshold, go on to the next position
QuoteHandled(pid) ==
    LET p == positions[pid]
    IN \/ positions' = positions /\ funding_rates' = funding_rates
          /\ mon' = MonScan(Tail(mon.queue), positions)
       \/ \E price \in MarketPrices :
             /\ StopLossHit(p, price) \/ TakeProfitHit(p, price)
             /\ mon'.pc = "close" /\ Head(mon'.queue) = pid
             /\ mon'.reason \in {"stop_loss", "take_profit"}
             /\ positions' = positions
       \/ \E price \in MarketPrices :
             /\ ~StopLossHit(p, price) /\ ~TakeProfitHit(p, price)
             /\ positions' = [positions EXCEPT ![pid].unrealized_pnl = HedgePnl(p, price)]
             /\ IF HighFunding(funding_rates'[p.asset])
                THEN mon'.pc = "close" /\ mon'.reason = "funding"
                ELSE mon' = MonScan(Tail(mon.queue), positions')

\* C34: on a monitor tick an OPEN position that has not expired is closed
\* when the quoted price breaches its stop-loss or take-profit, signed by the
\* hedge side; it is left OPEN with only unrealized_pnl updated when neither
\* is breached and the funding rate is within its threshold; it is left
\* unchanged when no quote could be fetched.
C34_MonitorTickOutcome ==
    [][(/\ mon.pc = "quote" /\ mon' # mon
        /\ positions[Head(mon.queue)].status = "OPEN"
        /\ ~Expired(positions[Head(mon.queue)], now))
       => QuoteHandled(Head(mon.queue))]_vars

\* C35: every position held in active_positions has status OPEN; none stays
\* registered after execute_opportunity returned None for it, after a rollback
\* set it CANCELLED or ERROR, or after a close attempt set it ERROR.
C35_ActiveAreOpen ==
    \A pid \in active_positions : positions[pid].status = "OPEN"

\* the step ends a close of position pid, or a rollback of it
ClosedOrRolledBack(pid) ==
    \/ /\ Len(position_history') = Len(position_history) + 1
       /\ position_history'[Len(position_history')] = pid
    \/ book'[pid].rollbacks = book[pid].rollbacks + 1

\* C36: closing or rolling back one position changes the perpetual venue's
\* position on its asset by no more than what that position's own hedge orders
\* had filled, and leaves the venue's positions on the other assets as they
\* were, so that the hedges of the other active positions stay in place.
C36_CloseLeavesOtherHedges ==
    [][\A pid \in Pids :
          ClosedOrRolledBack(pid)
          => /\ hl_positions'[positions[pid].asset] \in
                    { hl_positions[positions[pid].asset],
                      hl_positions[positions[pid].asset] - book[pid].hl_net }
             /\ \A a \in Assets \ {positions[pid].asset} :
                    hl_positions'[a] = hl_positions[a]]_vars

\* the monitor is at position pid in a pass: it awaits the quote for it, or
\* the close it decided for it
Evaluating(pid) ==
    mon.pc \in {"quote", "close"} /\ Head(mon.queue) = pid

C38_HedgeStampedFromOwnFill ==
    [][(/\ ex.pc = "legs" /\ ex.hl = "check"
        /\ ex'.pc = "legs" /\ ex'.hl = "done" /\ ex'.hl_success)
       => /\ book'[ex.pid].hl_net # 0
          /\ positions'[ex.pid].hedge_quantity = Abs(book'[ex.pid].hl_net)
          /\ positions'[ex.pid].hedge_entry_price # None]_vars

\* C39: with live trading enabled, every opportunity of a scan that passes
\* validate_opportunity is handed to execute_opportunity in that scan cycle:
\* the processing of an opportunity ends without a call of the executor only
\* when the validation has rejected it.
C39_ValidatedOpportunityIsExecuted ==
    [][(calc'.fn = "process" /\ calc' # calc) => calc'.outcome = "invalid"]_vars

====
